---- MODULE Spec2Model ----
(***************************************************************************)
(* Game data pipeline of the Star Rupture layout planner:                  *)
(* load -> validate -> index -> lookup, and the store that holds the       *)
(* compiled data.                                                          *)
(*                                                                         *)
(* Conventions.  An optional field (TypeScript `f?: T`) is a sequence of   *)
(* length at most one: <<>> is undefined, <<v>> is the value v.  A         *)
(* JavaScript Map is the sequence of its entries [key, value] in insertion *)
(* order.  Fields no modelled code reads (names, sizes, power, ...) are    *)
(* left out of the records.                                                *)
(***************************************************************************)
EXTENDS Integers, Sequences, FiniteSets, TLC

VARIABLES
    \* the input of the function under test and the validator's result
    raw, validation,
    \* the store's state
    gameData, indices, isLoading, error, lastUpdated,
    \* the calls of loadGameData, in call order
    attempt,
    \* the wall clock
    now,
    \* what has happened so far (read by no action)
    history,
    \* the five fetches of one call of loadRawGameData and the promise that joins them
    loader

store == <<gameData, indices, isLoading, error, lastUpdated>>

vars == <<raw, validation, gameData, indices, isLoading, error, lastUpdated, attempt, now,
          history, loader>>

(***************************************************************************)
(* Bounds of the model.                                                    *)
(***************************************************************************)
\* longest collection in an input that varies one collection in depth
MaxRecords == 3
\* longest nested list (recipe inputs, building recipeIds, level rewards)
MaxRefs == 2
\* most records in a collection whose references vary
MaxRich == 1
\* calls of loadGameData in one run
MaxLoads == 2

\* mutations a caller makes to the arrays it was handed
MaxMutations == 2

(***************************************************************************)
(* JavaScript values.                                                      *)
(***************************************************************************)
Undefined == <<>>

\* null and undefined are not told apart: the code never does
Null == <<>>

Some(v) == <<v>>

\* `x` used as a condition, for an optional string: undefined and "" are falsy
TruthyString(opt) == opt # Undefined /\ opt[1] # ""

\* `x` used as a condition, for an optional object or array: only undefined is falsy
TruthyObject(opt) == opt # Undefined

\* all sequences over S of length at most n
SeqsUpTo(S, n) == UNION {[1..k -> S] : k \in 0..n}

\* the sequence of F(s[i]) spliced together, in order (a loop that pushes)
FlatMap(F(_), s) ==
    LET f[i \in 0..Len(s)] == IF i = 0 THEN <<>> ELSE f[i - 1] \o F(s[i])
    IN  f[Len(s)]

\* Array.prototype.map
Map(F(_), s) == [i \in 1..Len(s) |-> F(s[i])]

\* new Set(array): membership is all the validator uses
IdSet(entities) == {entities[i].id : i \in 1..Len(entities)}

(***************************************************************************)
(* JavaScript Map: entries in insertion order.                             *)
(***************************************************************************)
EmptyMap == <<>>

MapHas(m, key) == \E i \in 1..Len(m) : m[i].key = key

\* Map.prototype.get: undefined for an absent key
MapGet(m, key) ==
    IF MapHas(m, key)
    THEN Some(m[CHOOSE i \in 1..Len(m) : m[i].key = key].value)
    ELSE Undefined

\* mutant: a present key keeps its value
MapSet_KeepFirst(m, key, value) ==
    IF MapHas(m, key) THEN m ELSE Append(m, [key |-> key, value |-> value])

\* Map.prototype.set: a present key keeps its place and takes the new value
MapSet(m, key, value) ==
    IF MapHas(m, key)
    THEN [i \in 1..Len(m) |-> IF m[i].key = key THEN [key |-> key, value |-> value] ELSE m[i]]
    ELSE Append(m, [key |-> key, value |-> value])

\* Array.from(map.values())
MapValues(m) == [i \in 1..Len(m) |-> m[i].value]

MapKeys(m) == [i \in 1..Len(m) |-> m[i].key]

\* new Map(entities.map((e) => [e.id, e]))
MapById(entities) ==
    LET f[i \in 0..Len(entities)] ==
            IF i = 0 THEN EmptyMap ELSE MapSet(f[i - 1], entities[i].id, entities[i])
    IN  f[Len(entities)]

\* `map.get(key) ?? []`
GetOrEmpty(m, key) == IF MapHas(m, key) THEN MapGet(m, key)[1] ELSE <<>>

\* for (const e of entities) { existing = index.get(K(e)) ?? []; existing.push(e);
\* index.set(K(e), existing) }, for the entities that satisfy Keep
GroupBy(entities, K(_), Keep(_)) ==
    LET f[i \in 0..Len(entities)] ==
            IF i = 0 THEN EmptyMap
            ELSE IF Keep(entities[i])
                 THEN MapSet(f[i - 1], K(entities[i]),
                             Append(GetOrEmpty(f[i - 1], K(entities[i])), entities[i]))
                 ELSE f[i - 1]
    IN  f[Len(entities)]

\* Array.prototype.filter
Filter(s, Keep(_)) == FlatMap(LAMBDA x : IF Keep(x) THEN <<x>> ELSE <<>>, s)

(***************************************************************************)
(* Validator.                                                              *)
(***************************************************************************)
ValidationErrorCodes ==
    [DUPLICATE_ID |-> "DUPLICATE_ID",
     MISSING_BUILDING_REF |-> "MISSING_BUILDING_REF",
     MISSING_ITEM_REF |-> "MISSING_ITEM_REF",
     MISSING_RECIPE_REF |-> "MISSING_RECIPE_REF",
     MISSING_CORPORATION_REF |-> "MISSING_CORPORATION_REF",
     MISSING_RAIL_REF |-> "MISSING_RAIL_REF"]

ValidationError(code, message, file, entityId) ==
    [code |-> code, message |-> message, file |-> file, entityId |-> entityId]

Quoted(s) == "\"" \o s \o "\""

\* mutant: the id is remembered before it is tested, so a first occurrence is flagged too
checkDuplicateIds_SeenFirst(entities, file, entityType) ==
    FlatMap(LAMBDA e : <<ValidationError(ValidationErrorCodes.DUPLICATE_ID,
                            "Duplicate " \o entityType \o " ID: " \o Quoted(e.id),
                            file, e.id)>>,
            entities)

checkDuplicateIds(entities, file, entityType) ==
    LET loop[i \in 0..Len(entities)] ==
            IF i = 0 THEN [errors |-> <<>>, seen |-> {}]
            ELSE LET prev == loop[i - 1]
                     entity == entities[i]
                 IN  [errors |->
                          IF entity.id \in prev.seen
                          THEN Append(prev.errors,
                                   ValidationError(ValidationErrorCodes.DUPLICATE_ID,
                                       "Duplicate " \o entityType \o " ID: " \o Quoted(entity.id),
                                       file, entity.id))
                          ELSE prev.errors,
                      seen |-> prev.seen \cup {entity.id}]
    IN  loop[Len(entities)].errors

\* mutant: the input loop stops at the first unresolved input
recipeErrors_FirstBadInput(recipe, itemIds, buildingIds) ==
    (IF recipe.buildingId \notin buildingIds
     THEN <<ValidationError(ValidationErrorCodes.MISSING_BUILDING_REF,
                "Recipe " \o Quoted(recipe.id) \o " references non-existent building "
                    \o Quoted(recipe.buildingId),
                "recipes.json", recipe.id)>>
     ELSE <<>>)
    \o
    (IF recipe.output.id \notin itemIds
     THEN <<ValidationError(ValidationErrorCodes.MISSING_ITEM_REF,
                "Recipe " \o Quoted(recipe.id) \o " output references non-existent item "
                    \o Quoted(recipe.output.id),
                "recipes.json", recipe.id)>>
     ELSE <<>>)
    \o
    (IF \E k \in 1..Len(recipe.inputs) : recipe.inputs[k].id \notin itemIds
     THEN LET k == CHOOSE k \in 1..Len(recipe.inputs) :
                       /\ recipe.inputs[k].id \notin itemIds
                       /\ \A j \in 1..(k - 1) : recipe.inputs[j].id \in itemIds
          IN  <<ValidationError(ValidationErrorCodes.MISSING_ITEM_REF,
                    "Recipe " \o Quoted(recipe.id) \o " input references non-existent item "
                        \o Quoted(recipe.inputs[k].id),
                    "recipes.json", recipe.id)>>
     ELSE <<>>)

\* the violations of one recipe, in the order the loop body pushes them
recipeErrors(recipe, itemIds, buildingIds) ==
    (IF recipe.buildingId \notin buildingIds
     THEN <<ValidationError(ValidationErrorCodes.MISSING_BUILDING_REF,
                "Recipe " \o Quoted(recipe.id) \o " references non-existent building "
                    \o Quoted(recipe.buildingId),
                "recipes.json", recipe.id)>>
     ELSE <<>>)
    \o
    (IF recipe.output.id \notin itemIds
     THEN <<ValidationError(ValidationErrorCodes.MISSING_ITEM_REF,
                "Recipe " \o Quoted(recipe.id) \o " output references non-existent item "
                    \o Quoted(recipe.output.id),
                "recipes.json", recipe.id)>>
     ELSE <<>>)
    \o
    FlatMap(LAMBDA input :
                IF input.id \notin itemIds
                THEN <<ValidationError(ValidationErrorCodes.MISSING_ITEM_REF,
                           "Recipe " \o Quoted(recipe.id) \o " input references non-existent item "
                               \o Quoted(input.id),
                           "recipes.json", recipe.id)>>
                ELSE <<>>,
            recipe.inputs)

\* the violations of one building
buildingErrors(building, recipeIds, corporationIds) ==
    (IF TruthyObject(building.recipeIds)
     THEN FlatMap(LAMBDA recipeId :
                      IF recipeId \notin recipeIds
                      THEN <<ValidationError(ValidationErrorCodes.MISSING_RECIPE_REF,
                                 "Building " \o Quoted(building.id)
                                     \o " references non-existent recipe " \o Quoted(recipeId),
                                 "buildings.json", building.id)>>
                      ELSE <<>>,
                  building.recipeIds[1])
     ELSE <<>>)
    \o
    (IF TruthyObject(building.unlockedBy)
        /\ building.unlockedBy[1].corporation \notin corporationIds
     THEN <<ValidationError(ValidationErrorCodes.MISSING_CORPORATION_REF,
                "Building " \o Quoted(building.id) \o " references non-existent corporation "
                    \o Quoted(building.unlockedBy[1].corporation),
                "buildings.json", building.id)>>
     ELSE <<>>)

\* the violations of one rail
railErrors(rail, corporationIds) ==
    IF TruthyObject(rail.unlockedBy)
       /\ rail.unlockedBy[1].corporation \notin corporationIds
    THEN <<ValidationError(ValidationErrorCodes.MISSING_CORPORATION_REF,
               "Rail " \o Quoted(rail.id) \o " references non-existent corporation "
                   \o Quoted(rail.unlockedBy[1].corporation),
               "rails.json", rail.id)>>
    ELSE <<>>

\* mutant: every reward that carries an id is checked against the buildings
rewardErrors_AnyType(corporation, level, reward, buildingIds, railIds) ==
    IF TruthyString(reward.id) /\ reward.id[1] \notin buildingIds
    THEN <<ValidationError(ValidationErrorCodes.MISSING_BUILDING_REF,
               "Corporation " \o Quoted(corporation.id) \o " level " \o ToString(level.level)
                   \o " reward references non-existent building " \o Quoted(reward.id[1]),
               "corporations_components.json", corporation.id)>>
    ELSE <<>>

\* the violations of one reward of one level of one corporation
rewardErrors(corporation, level, reward, buildingIds, railIds) ==
    (IF reward.type = "building" /\ TruthyString(reward.id)
        /\ reward.id[1] \notin buildingIds
     THEN <<ValidationError(ValidationErrorCodes.MISSING_BUILDING_REF,
                "Corporation " \o Quoted(corporation.id) \o " level " \o ToString(level.level)
                    \o " reward references non-existent building " \o Quoted(reward.id[1]),
                "corporations_components.json", corporation.id)>>
     ELSE <<>>)
    \o
    (IF reward.type = "rail" /\ TruthyString(reward.id)
        /\ reward.id[1] \notin railIds
     THEN <<ValidationError(ValidationErrorCodes.MISSING_RAIL_REF,
                "Corporation " \o Quoted(corporation.id) \o " level " \o ToString(level.level)
                    \o " reward references non-existent rail " \o Quoted(reward.id[1]),
                "corporations_components.json", corporation.id)>>
     ELSE <<>>)

corporationErrors(corporation, buildingIds, railIds) ==
    FlatMap(LAMBDA level :
                FlatMap(LAMBDA reward :
                            rewardErrors(corporation, level, reward, buildingIds, railIds),
                        level.rewards),
            corporation.levels)

\* the five duplicate scans, in the order they are pushed
duplicateErrors(data) ==
    checkDuplicateIds(data.items, "items_catalog.json", "item")
    \o checkDuplicateIds(data.buildings, "buildings.json", "building")
    \o checkDuplicateIds(data.recipes, "recipes.json", "recipe")
    \o checkDuplicateIds(data.rails, "rails.json", "rail")
    \o checkDuplicateIds(data.corporations, "corporations_components.json", "corporation")

\* the four reference loops, in the order they run
referenceErrors(data) ==
    LET itemIds == IdSet(data.items)
        buildingIds == IdSet(data.buildings)
        recipeIds == IdSet(data.recipes)
        railIds == IdSet(data.rails)
        corporationIds == IdSet(data.corporations)
    IN  FlatMap(LAMBDA recipe : recipeErrors(recipe, itemIds, buildingIds), data.recipes)
        \o FlatMap(LAMBDA building : buildingErrors(building, recipeIds, corporationIds),
                   data.buildings)
        \o FlatMap(LAMBDA rail : railErrors(rail, corporationIds), data.rails)
        \o FlatMap(LAMBDA corporation : corporationErrors(corporation, buildingIds, railIds),
                   data.corporations)

\* mutant: the reference loops are skipped when a duplicate id was found
validateGameData_StopAtDuplicates(data) ==
    LET errors == IF Len(duplicateErrors(data)) > 0
                  THEN duplicateErrors(data)
                  ELSE referenceErrors(data)
    IN  [isValid |-> Len(errors) = 0, errors |-> errors]

\* mutant: the flag is computed after the duplicate scans, before the reference loops
validateGameData_EarlyFlag(data) ==
    [isValid |-> Len(duplicateErrors(data)) = 0,
     errors |-> duplicateErrors(data) \o referenceErrors(data)]

validateGameData(data) ==
    LET errors == duplicateErrors(data) \o referenceErrors(data)
    IN  [isValid |-> Len(errors) = 0, errors |-> errors]

(***************************************************************************)
(* Index builder.                                                          *)
(***************************************************************************)
\* mutant: the last rail is left out of its table
buildGameDataMaps_DropsLastRail(data) ==
    [items |-> MapById(data.items),
     buildings |-> MapById(data.buildings),
     recipes |-> MapById(data.recipes),
     rails |-> MapById(SubSeq(data.rails, 1, Len(data.rails) - 1)),
     corporations |-> MapById(data.corporations)]

buildGameDataMaps(data) ==
    [items |-> MapById(data.items),
     buildings |-> MapById(data.buildings),
     recipes |-> MapById(data.recipes),
     rails |-> MapById(data.rails),
     corporations |-> MapById(data.corporations)]

buildRecipesByBuilding(recipes) ==
    GroupBy(MapValues(recipes), LAMBDA recipe : recipe.buildingId, LAMBDA recipe : TRUE)

buildRecipesByOutputItem(recipes) ==
    GroupBy(MapValues(recipes), LAMBDA recipe : recipe.output.id, LAMBDA recipe : TRUE)

\* mutant: a recipe is filed under its first input only
buildRecipesByInputItem_FirstInputOnly(recipes) ==
    GroupBy(MapValues(recipes), LAMBDA recipe : recipe.inputs[1].id,
            LAMBDA recipe : Len(recipe.inputs) > 0)

\* one push per entry of inputs, recipe by recipe
buildRecipesByInputItem(recipes) ==
    LET pushes == FlatMap(LAMBDA recipe :
                              Map(LAMBDA input : [key |-> input.id, recipe |-> recipe],
                                  recipe.inputs),
                          MapValues(recipes))
        f[i \in 0..Len(pushes)] ==
            IF i = 0 THEN EmptyMap
            ELSE MapSet(f[i - 1], pushes[i].key,
                        Append(GetOrEmpty(f[i - 1], pushes[i].key), pushes[i].recipe))
    IN  f[Len(pushes)]

buildBuildingsByType(buildings) ==
    GroupBy(MapValues(buildings), LAMBDA building : building.type, LAMBDA building : TRUE)

\* mutant: a building without an unlock requirement is filed under the empty key
buildBuildingsByCorporation_EmptyKey(buildings) ==
    GroupBy(MapValues(buildings),
            LAMBDA building : IF TruthyObject(building.unlockedBy)
                              THEN building.unlockedBy[1].corporation
                              ELSE "",
            LAMBDA building : TRUE)

buildBuildingsByCorporation(buildings) ==
    GroupBy(MapValues(buildings),
            LAMBDA building : building.unlockedBy[1].corporation,
            LAMBDA building : TruthyObject(building.unlockedBy))

\* mutant: the items are grouped from the last to the first
buildItemsByType_Backwards(items) ==
    GroupBy([i \in 1..Len(items) |-> items[Len(items) + 1 - i].value],
            LAMBDA item : item.type, LAMBDA item : TRUE)

buildItemsByType(items) ==
    GroupBy(MapValues(items), LAMBDA item : item.type, LAMBDA item : TRUE)

buildItemsByTier(items) ==
    GroupBy(MapValues(items), LAMBDA item : item.tier, LAMBDA item : TRUE)

\* mutant: a sort that puts a rail before the rails of its own capacity
SortByCapacity_TiesReversed(rails) ==
    LET f[i \in 0..Len(rails)] ==
            IF i = 0 THEN <<>>
            ELSE LET sorted == f[i - 1]
                     n == Cardinality({j \in 1..Len(sorted) :
                                          sorted[j].capacity < rails[i].capacity})
                 IN  SubSeq(sorted, 1, n) \o <<rails[i]>> \o SubSeq(sorted, n + 1, Len(sorted))
    IN  f[Len(rails)]

\* Array.prototype.sort((a, b) => a.capacity - b.capacity): stable, ascending
SortByCapacity(rails) ==
    LET f[i \in 0..Len(rails)] ==
            IF i = 0 THEN <<>>
            ELSE LET sorted == f[i - 1]
                     n == Cardinality({j \in 1..Len(sorted) :
                                          sorted[j].capacity <= rails[i].capacity})
                 IN  SubSeq(sorted, 1, n) \o <<rails[i]>> \o SubSeq(sorted, n + 1, Len(sorted))
    IN  f[Len(rails)]

\* [...new Set(numbers)].sort((a, b) => a - b)
SortedDistinct(numbers) ==
    LET values == {numbers[i] : i \in 1..Len(numbers)}
        f[i \in 0..Cardinality(values)] ==
            IF i = 0 THEN <<>>
            ELSE Append(f[i - 1],
                        CHOOSE v \in values :
                            Cardinality({w \in values : w < v}) = i - 1)
    IN  f[Cardinality(values)]

buildRailIndices(rails) ==
    LET sortedRails == SortByCapacity(MapValues(rails))
        uniqueCapacities == SortedDistinct(Map(LAMBDA r : r.capacity, sortedRails))
        f[i \in 0..Len(uniqueCapacities)] ==
            IF i = 0 THEN EmptyMap
            ELSE MapSet(f[i - 1], uniqueCapacities[i],
                        Filter(sortedRails, LAMBDA r : r.capacity >= uniqueCapacities[i]))
    IN  [railsSortedByCapacity |-> sortedRails,
         railsByMinCapacity |-> f[Len(uniqueCapacities)]]

buildRewardsByCorpLevel(corporations) ==
    LET levelMap(corp) ==
            LET g[i \in 0..Len(corp.levels)] ==
                    IF i = 0 THEN EmptyMap
                    ELSE MapSet(g[i - 1], corp.levels[i].level, corp.levels[i].rewards)
            IN  g[Len(corp.levels)]
        corps == MapValues(corporations)
        f[i \in 0..Len(corps)] ==
            IF i = 0 THEN EmptyMap ELSE MapSet(f[i - 1], corps[i].id, levelMap(corps[i]))
    IN  f[Len(corps)]

buildGameDataIndices(data) ==
    [recipesByBuilding |-> buildRecipesByBuilding(data.recipes),
     recipesByOutputItem |-> buildRecipesByOutputItem(data.recipes),
     recipesByInputItem |-> buildRecipesByInputItem(data.recipes),
     buildingsByType |-> buildBuildingsByType(data.buildings),
     buildingsByCorporation |-> buildBuildingsByCorporation(data.buildings),
     itemsByType |-> buildItemsByType(data.items),
     itemsByTier |-> buildItemsByTier(data.items),
     railsSortedByCapacity |-> buildRailIndices(data.rails).railsSortedByCapacity,
     railsByMinCapacity |-> buildRailIndices(data.rails).railsByMinCapacity,
     rewardsByCorpLevel |-> buildRewardsByCorpLevel(data.corporations)]

(***************************************************************************)
(* Inputs: the raw data a load can deliver.                                *)
(***************************************************************************)
Ids == {"a", "b"}

RawGameData(items, buildings, recipes, rails, corporations) ==
    [items |-> items, buildings |-> buildings, recipes |-> recipes,
     rails |-> rails, corporations |-> corporations]

\* records that reference nothing: only the id varies
PlainItems == {[id |-> i, type |-> "raw", tier |-> 0] : i \in Ids}

PlainBuildings ==
    {[id |-> i, type |-> "extraction", recipeIds |-> Undefined, unlockedBy |-> Undefined] :
        i \in Ids}

PlainRecipes ==
    {[id |-> i, buildingId |-> "a", output |-> [id |-> "a"], inputs |-> <<>>] : i \in Ids}

PlainRails == {[id |-> i, capacity |-> 120, unlockedBy |-> Undefined] : i \in Ids}

PlainCorporations == {[id |-> i, levels |-> <<>>] : i \in Ids}

\* records whose references vary
UnlockRequirements == {Undefined} \cup {Some([corporation |-> c, level |-> 1]) : c \in Ids}

RichBuildings ==
    {[id |-> i, type |-> "processing", recipeIds |-> rs, unlockedBy |-> u] :
        i \in Ids,
        rs \in {Undefined} \cup {Some(s) : s \in SeqsUpTo(Ids, MaxRefs)},
        u \in UnlockRequirements}

RichRecipes ==
    {[id |-> i, buildingId |-> b, output |-> [id |-> o], inputs |-> ins] :
        i \in Ids, b \in Ids, o \in Ids,
        ins \in SeqsUpTo({[id |-> x] : x \in Ids}, MaxRefs)}

RichRails == {[id |-> i, capacity |-> 120, unlockedBy |-> u] : i \in Ids, u \in UnlockRequirements}

Rewards ==
    {[type |-> t, id |-> r] :
        t \in {"building", "rail", "utility"},
        r \in {Undefined, Some("")} \cup {Some(x) : x \in Ids}}

RichCorporations ==
    {[id |-> i, levels |-> <<[level |-> 1, rewards |-> rs]>>] :
        i \in Ids, rs \in SeqsUpTo(Rewards, MaxRefs)}

\* a collection of at most one record
AtMostOne(S) == {<<>>} \cup {<<r>> : r \in S}

\* the input is one collection of each kind, drawn from the given sets
DrawInput(items, buildings, recipes, rails, corporations) ==
    \E i \in items, b \in buildings, r \in recipes, l \in rails, c \in corporations :
        raw = RawGameData(i, b, r, l, c)

\* every collection has at most one plain record, except one that has up to MaxRecords
DuplicateInputs ==
    \E focus \in 1..5 :
        DrawInput(
            IF focus = 1 THEN SeqsUpTo(PlainItems, MaxRecords) ELSE AtMostOne(PlainItems),
            IF focus = 2 THEN SeqsUpTo(PlainBuildings, MaxRecords)
            ELSE AtMostOne(PlainBuildings),
            IF focus = 3 THEN SeqsUpTo(PlainRecipes, MaxRecords) ELSE AtMostOne(PlainRecipes),
            IF focus = 4 THEN SeqsUpTo(PlainRails, MaxRecords) ELSE AtMostOne(PlainRails),
            IF focus = 5 THEN SeqsUpTo(PlainCorporations, MaxRecords)
            ELSE AtMostOne(PlainCorporations))

\* recipes that reference items and buildings that may or may not exist
RecipeInputs ==
    DrawInput(AtMostOne(PlainItems), AtMostOne(PlainBuildings),
              SeqsUpTo(RichRecipes, MaxRich), {<<>>}, {<<>>})

\* buildings that reference recipes and corporations that may or may not exist
BuildingInputs ==
    DrawInput({<<>>}, SeqsUpTo(RichBuildings, MaxRich), AtMostOne(PlainRecipes),
              {<<>>}, AtMostOne(PlainCorporations))

\* rails that reference corporations that may or may not exist
RailInputs ==
    DrawInput({<<>>}, {<<>>}, {<<>>}, SeqsUpTo(RichRails, MaxRich),
              AtMostOne(PlainCorporations))

\* corporations whose rewards reference buildings and rails that may or may not exist
CorporationInputs ==
    DrawInput({<<>>}, AtMostOne(PlainBuildings), {<<>>}, AtMostOne(PlainRails),
              SeqsUpTo(RichCorporations, MaxRich))

\* each collection is either empty or broken in its own way, independently
AccumulationInputs ==
    DrawInput(
        {<<>>, <<[id |-> "a", type |-> "raw", tier |-> 0],
                 [id |-> "a", type |-> "raw", tier |-> 0]>>},
        {<<>>, <<[id |-> "a", type |-> "processing", recipeIds |-> Some(<<"b">>),
                  unlockedBy |-> Some([corporation |-> "b", level |-> 1])]>>},
        {<<>>, <<[id |-> "a", buildingId |-> "b", output |-> [id |-> "b"],
                  inputs |-> <<[id |-> "b"]>>]>>},
        {<<>>, <<[id |-> "a", capacity |-> 120,
                  unlockedBy |-> Some([corporation |-> "b", level |-> 1])]>>},
        {<<>>, <<[id |-> "a",
                  levels |-> <<[level |-> 1,
                                rewards |-> <<[type |-> "building", id |-> Some("b")],
                                              [type |-> "rail", id |-> Some("b")]>>]>>]>>})

RawInputs ==
    \/ DuplicateInputs
    \/ RecipeInputs
    \/ BuildingInputs
    \/ RailInputs
    \/ CorporationInputs
    \/ AccumulationInputs

\* Inputs of the table and index builders: one collection varies, in content and
\* in order, repeated ids included; the others are empty.
TableIds == Ids \cup {"c"}

TableItems ==
    {[id |-> i, type |-> k.type, tier |-> k.tier] :
        i \in TableIds, k \in {[type |-> "raw", tier |-> 0], [type |-> "processed", tier |-> 1]}}

TableRails == {[id |-> i, capacity |-> c, unlockedBy |-> Undefined] : i \in TableIds, c \in {120, 240}}

TableBuildings ==
    {[id |-> i, type |-> t, recipeIds |-> Undefined, unlockedBy |-> u] :
        i \in Ids, t \in {"extraction", "processing"}, u \in UnlockRequirements}

TableRecipes ==
    {[id |-> i, buildingId |-> b, output |-> [id |-> b], inputs |-> ins] :
        i \in Ids, b \in Ids, ins \in SeqsUpTo({[id |-> x] : x \in Ids}, MaxRefs)}

TableRewards ==
    {[type |-> t, id |-> r] :
        t \in {"building", "rail"}, r \in {Undefined, Some("")} \cup {Some(x) : x \in Ids}}
        \cup {[type |-> "currency", id |-> Undefined]}

\* records whose id is the empty string
EmptyIdBuilding == [id |-> "", type |-> "extraction", recipeIds |-> Undefined, unlockedBy |-> Undefined]

EmptyIdRail == [id |-> "", capacity |-> 120, unlockedBy |-> Undefined]

\* the tables that rewards are resolved against: none, one record, or b before a
UnlockableBuildings ==
    AtMostOne(PlainBuildings \cup {EmptyIdBuilding})
        \cup {<<[id |-> "b", type |-> "extraction", recipeIds |-> Undefined, unlockedBy |-> Undefined],
                [id |-> "a", type |-> "extraction", recipeIds |-> Undefined, unlockedBy |-> Undefined]>>}

UnlockableRails ==
    AtMostOne(PlainRails \cup {EmptyIdRail})
        \cup {<<[id |-> "b", capacity |-> 120, unlockedBy |-> Undefined],
                [id |-> "a", capacity |-> 120, unlockedBy |-> Undefined]>>}

TableCorporations ==
    {[id |-> i, levels |-> <<[level |-> 1, rewards |-> rs]>>] :
        i \in Ids, rs \in SeqsUpTo(TableRewards, MaxRefs)}

TableInputs ==
    \/ DrawInput(SeqsUpTo(TableItems, MaxRecords), {<<>>}, {<<>>}, {<<>>}, {<<>>})
    \/ DrawInput({<<>>}, SeqsUpTo(TableBuildings, MaxRich + 1), {<<>>}, {<<>>}, {<<>>})
    \/ DrawInput({<<>>}, {<<>>}, SeqsUpTo(TableRecipes, MaxRich + 1), {<<>>}, {<<>>})
    \/ DrawInput({<<>>}, {<<>>}, {<<>>}, SeqsUpTo(TableRails, MaxRecords), {<<>>})
    \/ DrawInput({<<>>}, UnlockableBuildings, {<<>>}, UnlockableRails,
                 SeqsUpTo(TableCorporations, MaxRich))

EmptyRawGameData == RawGameData(<<>>, <<>>, <<>>, <<>>, <<>>)

(***************************************************************************)
(* Loader: what loadRawGameData can settle with.                           *)
(***************************************************************************)
DATA_FILES ==
    [items |-> "items_catalog.json", buildings |-> "buildings.json",
     recipes |-> "recipes.json", rails |-> "rails.json",
     corporations |-> "corporations_components.json"]

HttpErrorStatuses == {404, 500}

GameDataLoadError(message, filename) ==
    [name |-> "GameDataLoadError", message |-> message, filename |-> filename]

\* the three ways loadJsonFile throws
FetchFailed(filename) ==
    GameDataLoadError("Failed to fetch game data file: " \o filename, filename)

BadStatus(filename, status) ==
    GameDataLoadError("Game data file not found: " \o filename \o " (HTTP "
                          \o ToString(status) \o ")", filename)

InvalidJson(filename) ==
    GameDataLoadError("Invalid JSON in game data file: " \o filename, filename)

LoadErrors ==
    UNION {{FetchFailed(DATA_FILES[f]), InvalidJson(DATA_FILES[f])}
               \cup {BadStatus(DATA_FILES[f], st) : st \in HttpErrorStatuses} :
           f \in DOMAIN DATA_FILES}

\* what the five data files may hold when a load reads them
ItemA == [id |-> "a", type |-> "raw", tier |-> 0]

ItemB == [id |-> "b", type |-> "processed", tier |-> 1]

FileContents ==
    [items |-> {<<ItemA>>, <<ItemA, ItemB>>},
     buildings |->
        {<<[id |-> "a", type |-> "extraction", recipeIds |-> Some(<<"a">>),
            unlockedBy |-> Some([corporation |-> "a", level |-> 1])]>>},
     recipes |->
        {<<[id |-> "a", buildingId |-> "a", output |-> [id |-> "a"], inputs |-> <<>>]>>,
         <<[id |-> "a", buildingId |-> "a", output |-> [id |-> "b"],
            inputs |-> <<[id |-> "a"]>>]>>},
     rails |->
        {<<[id |-> "a", capacity |-> 120, unlockedBy |-> Undefined]>>,
         <<[id |-> "b", capacity |-> 240, unlockedBy |-> Undefined],
           [id |-> "a", capacity |-> 120, unlockedBy |-> Undefined]>>},
     corporations |->
        {<<[id |-> "a",
            levels |-> <<[level |-> 1,
                          rewards |-> <<[type |-> "building", id |-> Some("a")],
                                        [type |-> "rail", id |-> Some("a")],
                                        [type |-> "currency", id |-> Undefined]>>]>>]>>}]

LoadableData ==
    {RawGameData(i, b, r, l, c) :
        i \in FileContents.items, b \in FileContents.buildings,
        r \in FileContents.recipes, l \in FileContents.rails,
        c \in FileContents.corporations}

\* the five resources, by the name of their collection
Files == DOMAIN DATA_FILES

\* no call of loadRawGameData has been made
LoaderIdle ==
    [file |-> [f \in Files |-> [pc |-> "idle", result |-> Undefined]],
     all |-> [state |-> "idle", result |-> Undefined],
     reactions |-> <<>>]

\* loadRawGameData has been called: five loadJsonFile calls are at `await fetch`,
\* Promise.all waits for them
LoaderStarted ==
    [file |-> [f \in Files |-> [pc |-> "fetching", result |-> Undefined]],
     all |-> [state |-> "pending", result |-> Undefined],
     reactions |-> <<>>]

(***************************************************************************)
(* Store.                                                                  *)
(***************************************************************************)
Attempts == 1..MaxLoads

InFlight == {a \in Attempts : attempt[a].pc = "loading"}

\* attempt a is the last to have finished, and no attempt has started since
Finished(a) == [history EXCEPT !.lastFinished = a, !.startedSince = FALSE]

\* `error instanceof Error ? error.message : "Unknown error occurred"`
ErrorDescription(thrown) ==
    IF "message" \in DOMAIN thrown THEN thrown.message ELSE "Unknown error occurred"

\* the report of a failed validation: every violation, with its code
ValidationReport(errors) ==
    LET f[i \in 0..Len(errors)] ==
            IF i = 0 THEN "Validation failed:"
            ELSE f[i - 1] \o "\n[" \o errors[i].code \o "] " \o errors[i].message
    IN  f[Len(errors)]

\* mutant: the error is left in place until the load has finished
loadGameData_KeepsError(a) ==
    /\ attempt[a].pc = "idle"
    /\ \A b \in 1..(a - 1) : attempt[b].pc # "idle"
    /\ isLoading' = TRUE
    /\ attempt' = [attempt EXCEPT ![a] = [@ EXCEPT !.pc = "loading",
                                                   !.overlaps = InFlight,
                                                   !.writes = @ + 1,
                                                   !.calls = <<"loadRawGameData">>]]
    /\ now' = now + 1
    /\ history' = [history EXCEPT !.startedSince = TRUE]
    /\ UNCHANGED <<gameData, indices, error, lastUpdated, raw, validation>>

\* loadGameData, up to its await: the store shows a load in progress
loadGameData(a) ==
    /\ attempt[a].pc = "idle"
    /\ \A b \in 1..(a - 1) : attempt[b].pc # "idle"
    /\ isLoading' = TRUE
    /\ error' = Null
    /\ attempt' = [attempt EXCEPT ![a] = [@ EXCEPT !.pc = "loading",
                                                   !.overlaps = InFlight,
                                                   !.writes = @ + 1,
                                                   !.calls = <<"loadRawGameData">>]]
    /\ now' = now + 1
    /\ history' = [history EXCEPT !.startedSince = TRUE]
    /\ UNCHANGED <<gameData, indices, lastUpdated, raw, validation>>

\* mutant: the tables are published as soon as they are built, the indices are not
loadGameData_resolved_TablesOnly(a, data) ==
    /\ attempt[a].pc = "loading"
    /\ gameData' = Some(buildGameDataMaps(data))
    /\ isLoading' = FALSE
    /\ error' = Null
    /\ lastUpdated' = Some(now + 1)
    /\ attempt' = [attempt EXCEPT ![a] = [@ EXCEPT !.pc = "ready",
                                                   !.delivered = Some(data),
                                                   !.writes = @ + 1]]
    /\ history' = [Finished(a) EXCEPT !.everSucceeded = TRUE, !.failedSinceSuccess = FALSE,
                                  !.dataFrom = a]
    /\ now' = now + 1
    /\ UNCHANGED <<indices, raw, validation>>

\* mutant: tables and indices are published before the data is validated
loadGameData_resolved_PublishFirst(a, data) ==
    /\ attempt[a].pc = "loading"
    /\ gameData' = Some(buildGameDataMaps(data))
    /\ indices' = Some(buildGameDataIndices(buildGameDataMaps(data)))
    /\ isLoading' = FALSE
    /\ IF validateGameData(data).isValid
       THEN /\ error' = Null
            /\ lastUpdated' = Some(now + 1)
            /\ attempt' = [attempt EXCEPT ![a] = [@ EXCEPT !.pc = "ready",
                                                           !.delivered = Some(data),
                                                           !.writes = @ + 1]]
            /\ history' = [Finished(a) EXCEPT !.everSucceeded = TRUE,
                                          !.failedSinceSuccess = FALSE,
                                          !.dataFrom = a, !.indicesFrom = a]
       ELSE /\ error' = Some(ValidationReport(validateGameData(data).errors))
            /\ attempt' = [attempt EXCEPT ![a] = [@ EXCEPT !.pc = "invalid",
                                                           !.delivered = Some(data),
                                                           !.writes = @ + 1]]
            /\ history' = [Finished(a) EXCEPT !.failedSinceSuccess = TRUE]
            /\ UNCHANGED lastUpdated
    /\ now' = now + 1
    /\ UNCHANGED <<raw, validation>>

\* mutant: a load that fails resets the store to empty
loadGameData_resolved_ClearOnInvalid(a, data) ==
    /\ attempt[a].pc = "loading"
    /\ IF validateGameData(data).isValid
       THEN /\ gameData' = Some(buildGameDataMaps(data))
            /\ indices' = Some(buildGameDataIndices(buildGameDataMaps(data)))
            /\ isLoading' = FALSE
            /\ error' = Null
            /\ lastUpdated' = Some(now + 1)
            /\ attempt' = [attempt EXCEPT ![a] = [@ EXCEPT !.pc = "ready",
                                                           !.delivered = Some(data),
                                                           !.writes = @ + 1]]
            /\ history' = [Finished(a) EXCEPT !.everSucceeded = TRUE,
                                          !.failedSinceSuccess = FALSE,
                                          !.dataFrom = a, !.indicesFrom = a]
       ELSE /\ gameData' = Null
            /\ indices' = Null
            /\ isLoading' = FALSE
            /\ error' = Some(ValidationReport(validateGameData(data).errors))
            /\ attempt' = [attempt EXCEPT ![a] = [@ EXCEPT !.pc = "invalid",
                                                           !.delivered = Some(data),
                                                           !.writes = @ + 1]]
            /\ history' = [Finished(a) EXCEPT !.failedSinceSuccess = TRUE]
            /\ UNCHANGED lastUpdated
    /\ now' = now + 1
    /\ UNCHANGED <<raw, validation>>

\* mutant: tables and indices are built first, and published if the data is valid
loadGameData_resolved_BuildFirst(a, data) ==
    /\ attempt[a].pc = "loading"
    /\ IF validateGameData(data).isValid
       THEN /\ gameData' = Some(buildGameDataMaps(data))
            /\ indices' = Some(buildGameDataIndices(buildGameDataMaps(data)))
            /\ isLoading' = FALSE
            /\ error' = Null
            /\ lastUpdated' = Some(now + 1)
            /\ attempt' = [attempt EXCEPT ![a] = [@ EXCEPT !.pc = "ready",
                                                           !.delivered = Some(data),
                                                           !.writes = @ + 1,
                                                           !.calls = @ \o <<"buildGameDataMaps",
                                                               "buildGameDataIndices",
                                                               "validateGameData">>]]
            /\ history' = [Finished(a) EXCEPT !.everSucceeded = TRUE,
                                          !.failedSinceSuccess = FALSE,
                                          !.dataFrom = a, !.indicesFrom = a]
       ELSE /\ isLoading' = FALSE
            /\ error' = Some(ValidationReport(validateGameData(data).errors))
            /\ attempt' = [attempt EXCEPT ![a] = [@ EXCEPT !.pc = "invalid",
                                                           !.delivered = Some(data),
                                                           !.writes = @ + 1,
                                                           !.calls = @ \o <<"buildGameDataMaps",
                                                               "buildGameDataIndices",
                                                               "validateGameData">>]]
            /\ history' = [Finished(a) EXCEPT !.failedSinceSuccess = TRUE]
            /\ UNCHANGED <<gameData, indices, lastUpdated>>
    /\ now' = now + 1
    /\ UNCHANGED <<raw, validation>>

\* mutant: an attempt that is no longer the newest one drops its result
loadGameData_resolved_NewestOnly(a, data) ==
    /\ attempt[a].pc = "loading"
    /\ IF \E b \in Attempts : b > a /\ attempt[b].pc # "idle"
       THEN /\ attempt' = [attempt EXCEPT ![a] = [@ EXCEPT
                              !.pc = IF validateGameData(data).isValid
                                     THEN "ready" ELSE "invalid",
                              !.delivered = Some(data)]]
            /\ history' = Finished(a)
            /\ UNCHANGED <<gameData, indices, isLoading, error, lastUpdated>>
       ELSE IF validateGameData(data).isValid
       THEN /\ gameData' = Some(buildGameDataMaps(data))
            /\ indices' = Some(buildGameDataIndices(buildGameDataMaps(data)))
            /\ isLoading' = FALSE
            /\ error' = Null
            /\ lastUpdated' = Some(now + 1)
            /\ attempt' = [attempt EXCEPT ![a] = [@ EXCEPT !.pc = "ready",
                                                           !.delivered = Some(data),
                                                           !.writes = @ + 1]]
            /\ history' = [Finished(a) EXCEPT !.everSucceeded = TRUE,
                                              !.failedSinceSuccess = FALSE,
                                              !.dataFrom = a, !.indicesFrom = a]
       ELSE /\ isLoading' = FALSE
            /\ error' = Some(ValidationReport(validateGameData(data).errors))
            /\ attempt' = [attempt EXCEPT ![a] = [@ EXCEPT
                              !.pc = "invalid",
                              !.delivered = Some(data),
                              !.writes = @ + 1,
                              !.failure = Some(ValidationReport(
                                              validateGameData(data).errors))]]
            /\ history' = [Finished(a) EXCEPT !.failedSinceSuccess = TRUE]
            /\ UNCHANGED <<gameData, indices, lastUpdated>>
    /\ now' = now + 1
    /\ UNCHANGED <<raw, validation>>

\* loadGameData, after loadRawGameData resolved with data: validate, then either
\* build and publish tables and indices in one write, or record the report
loadGameData_resolved(a, data) ==
    /\ attempt[a].pc = "loading"
    /\ IF validateGameData(data).isValid
       THEN /\ gameData' = Some(buildGameDataMaps(data))
            /\ indices' = Some(buildGameDataIndices(buildGameDataMaps(data)))
            /\ isLoading' = FALSE
            /\ error' = Null
            /\ lastUpdated' = Some(now + 1)
            /\ attempt' = [attempt EXCEPT ![a] = [@ EXCEPT !.pc = "ready",
                                                           !.delivered = Some(data),
                                                           !.writes = @ + 1,
                                                           !.calls = @ \o <<"validateGameData",
                                                               "buildGameDataMaps",
                                                               "buildGameDataIndices">>]]
            /\ history' = [Finished(a) EXCEPT !.everSucceeded = TRUE,
                                          !.failedSinceSuccess = FALSE,
                                          !.dataFrom = a, !.indicesFrom = a]
       ELSE /\ isLoading' = FALSE
            /\ error' = Some(ValidationReport(validateGameData(data).errors))
            /\ attempt' = [attempt EXCEPT ![a] = [@ EXCEPT !.pc = "invalid",
                                                           !.delivered = Some(data),
                                                           !.writes = @ + 1,
                                                           !.calls = @ \o <<"validateGameData">>,
                                                           !.failure = Some(ValidationReport(
                                                               validateGameData(data).errors))]]
            /\ history' = [Finished(a) EXCEPT !.failedSinceSuccess = TRUE]
            /\ UNCHANGED <<gameData, indices, lastUpdated>>
    /\ now' = now + 1
    /\ UNCHANGED <<raw, validation>>

\* mutant: the catch branch records the error and leaves the loading flag set
loadGameData_rejected_StaysLoading(a, thrown) ==
    /\ attempt[a].pc = "loading"
    /\ error' = Some(ErrorDescription(thrown))
    /\ attempt' = [attempt EXCEPT ![a] = [@ EXCEPT !.pc = "unloaded", !.writes = @ + 1,
                                                   !.failure = Some(ErrorDescription(thrown))]]
    /\ history' = [Finished(a) EXCEPT !.failedSinceSuccess = TRUE]
    /\ now' = now + 1
    /\ UNCHANGED <<gameData, indices, isLoading, lastUpdated, raw, validation>>

\* loadGameData, after loadRawGameData rejected: record the description
loadGameData_rejected(a, thrown) ==
    /\ attempt[a].pc = "loading"
    /\ isLoading' = FALSE
    /\ error' = Some(ErrorDescription(thrown))
    /\ attempt' = [attempt EXCEPT ![a] = [@ EXCEPT !.pc = "unloaded", !.writes = @ + 1,
                                                   !.failure = Some(ErrorDescription(thrown))]]
    /\ history' = [Finished(a) EXCEPT !.failedSinceSuccess = TRUE]
    /\ now' = now + 1
    /\ UNCHANGED <<gameData, indices, lastUpdated, raw, validation>>

\* getGameData of the store
getGameData ==
    IF gameData = Null
    THEN [threw |-> TRUE, error |-> "Game data not loaded. Call loadGameData() first."]
    ELSE [threw |-> FALSE, value |-> gameData[1]]

\* getIndices of the store
getIndices ==
    IF indices = Null
    THEN [threw |-> TRUE, error |-> "Game data indices not loaded. Call loadGameData() first."]
    ELSE [threw |-> FALSE, value |-> indices[1]]

(***************************************************************************)
(* Lookup layer.  A call either throws or returns a value.                 *)
(***************************************************************************)
Return(v) == [threw |-> FALSE, value |-> v]

getStoreGameData == getGameData

getStoreIndices == getIndices

\* the call returns F(gameData), or throws what getStoreGameData throws
WithGameData(F(_)) ==
    IF getStoreGameData.threw THEN getStoreGameData ELSE Return(F(getStoreGameData.value))

\* the call returns F(indices), or throws what getStoreIndices throws
WithIndices(F(_)) ==
    IF getStoreIndices.threw THEN getStoreIndices ELSE Return(F(getStoreIndices.value))

getItem(id) == WithGameData(LAMBDA data : MapGet(data.items, id))

\* mutant: an absent index is read as an empty one
getItemsByType_EmptyWhenUnloaded(type) ==
    IF indices = Null THEN Return(<<>>)
    ELSE Return(GetOrEmpty(indices[1].itemsByType, type))

getItemsByType(type) == WithIndices(LAMBDA idx : GetOrEmpty(idx.itemsByType, type))

getItemsByTier(tier) == WithIndices(LAMBDA idx : GetOrEmpty(idx.itemsByTier, tier))

\* mutant: absent tables are read as empty ones
getAllItems_EmptyWhenUnloaded ==
    IF gameData = Null THEN Return(<<>>) ELSE Return(MapValues(gameData[1].items))

getAllItems == WithGameData(LAMBDA data : MapValues(data.items))

getBuilding(id) == WithGameData(LAMBDA data : MapGet(data.buildings, id))

getBuildingsByType(type) == WithIndices(LAMBDA idx : GetOrEmpty(idx.buildingsByType, type))

getBuildingsByCorporation(corpId) ==
    WithIndices(LAMBDA idx : GetOrEmpty(idx.buildingsByCorporation, corpId))

getAllBuildings == WithGameData(LAMBDA data : MapValues(data.buildings))

getRecipe(id) == WithGameData(LAMBDA data : MapGet(data.recipes, id))

\* mutant: a building without recipes is an error
getRecipesByBuilding_ThrowsOnUnknown(buildingId) ==
    IF indices # Null /\ ~MapHas(indices[1].recipesByBuilding, buildingId)
    THEN [threw |-> TRUE, error |-> "Unknown building: " \o buildingId]
    ELSE WithIndices(LAMBDA idx : GetOrEmpty(idx.recipesByBuilding, buildingId))

getRecipesByBuilding(buildingId) ==
    WithIndices(LAMBDA idx : GetOrEmpty(idx.recipesByBuilding, buildingId))

getRecipesProducing(itemId) ==
    WithIndices(LAMBDA idx : GetOrEmpty(idx.recipesByOutputItem, itemId))

\* mutant: a recipe is returned once however often it is in the group
getRecipesConsuming_Distinct(itemId) ==
    WithIndices(LAMBDA idx :
        LET group == GetOrEmpty(idx.recipesByInputItem, itemId)
        IN  FlatMap(LAMBDA k : IF \E j \in 1..(k - 1) : group[j] = group[k]
                               THEN <<>> ELSE <<group[k]>>,
                    [k \in 1..Len(group) |-> k]))

getRecipesConsuming(itemId) ==
    WithIndices(LAMBDA idx : GetOrEmpty(idx.recipesByInputItem, itemId))

getAllRecipes == WithGameData(LAMBDA data : MapValues(data.recipes))

getRail(id) == WithGameData(LAMBDA data : MapGet(data.rails, id))

\* mutant: without a precomputed list the whole sorted array is returned
getRailsByMinCapacity_NoFilter(minCapacity) ==
    WithIndices(LAMBDA idx :
        IF MapHas(idx.railsByMinCapacity, minCapacity)
        THEN MapGet(idx.railsByMinCapacity, minCapacity)[1]
        ELSE idx.railsSortedByCapacity)

getRailsByMinCapacity(minCapacity) ==
    WithIndices(LAMBDA idx :
        IF MapHas(idx.railsByMinCapacity, minCapacity)
        THEN MapGet(idx.railsByMinCapacity, minCapacity)[1]
        ELSE Filter(idx.railsSortedByCapacity, LAMBDA rail : rail.capacity >= minCapacity))

getAllRails == WithGameData(LAMBDA data : MapValues(data.rails))

getCorporation(id) == WithGameData(LAMBDA data : MapGet(data.corporations, id))

getAllCorporations == WithGameData(LAMBDA data : MapValues(data.corporations))

\* `corp?.levels ?? []`
getCorporationLevels(corpId) ==
    IF getCorporation(corpId).threw THEN getCorporation(corpId)
    ELSE Return(IF getCorporation(corpId).value = Undefined THEN <<>>
                ELSE getCorporation(corpId).value[1].levels)

\* `levelMap?.get(level) ?? []`
getRewardsAtLevel(corpId, level) ==
    WithIndices(LAMBDA idx :
        IF MapHas(idx.rewardsByCorpLevel, corpId)
        THEN GetOrEmpty(MapGet(idx.rewardsByCorpLevel, corpId)[1], level)
        ELSE <<>>)

getRewardsByType(corpId, level, type) ==
    IF getRewardsAtLevel(corpId, level).threw THEN getRewardsAtLevel(corpId, level)
    ELSE Return(Filter(getRewardsAtLevel(corpId, level).value,
                       LAMBDA reward : reward.type = type))

\* the records of `table` that the rewards with a truthy, resolving id name
Unlocked(rewards, table) ==
    FlatMap(LAMBDA reward :
                IF TruthyString(reward.id) /\ MapHas(table, reward.id[1])
                THEN <<MapGet(table, reward.id[1])[1]>>
                ELSE <<>>,
            rewards)

getRailsUnlockedBy(corpId, level) ==
    IF getRewardsByType(corpId, level, "rail").threw
    THEN getRewardsByType(corpId, level, "rail")
    ELSE WithGameData(LAMBDA data :
             Unlocked(getRewardsByType(corpId, level, "rail").value, data.rails))

getBuildingsUnlockedBy(corpId, level) ==
    IF getRewardsByType(corpId, level, "building").threw
    THEN getRewardsByType(corpId, level, "building")
    ELSE WithGameData(LAMBDA data :
             Unlocked(getRewardsByType(corpId, level, "building").value, data.buildings))

InitStore ==
    /\ gameData = Null
    /\ indices = Null
    /\ isLoading = FALSE
    /\ error = Null
    /\ lastUpdated = Null
    /\ attempt = [a \in Attempts |->
                     [pc |-> "idle", delivered |-> Undefined, overlaps |-> {}, writes |-> 0,
                      calls |-> <<>>, failure |-> Undefined]]
    /\ now = 0
    /\ history = [everSucceeded |-> FALSE, failedSinceSuccess |-> FALSE,
                  dataFrom |-> 0, indicesFrom |-> 0,
                  lastFinished |-> 0, startedSince |-> FALSE]

\* the loader is seen through its outcomes only: its fetches are not followed
Init ==
    /\ InitStore
    /\ raw = EmptyRawGameData
    /\ validation = Undefined
    /\ loader = LoaderIdle

Next ==
    \E a \in Attempts :
        \/ loadGameData(a) /\ UNCHANGED loader
        \/ \E data \in LoadableData : loadGameData_resolved(a, data) /\ UNCHANGED loader
        \/ \E thrown \in LoadErrors : loadGameData_rejected(a, thrown) /\ UNCHANGED loader

Spec == Init /\ [][Next]_vars

(***************************************************************************)
(* The validator applied to one input.                                     *)
(***************************************************************************)
InitValidate ==
    /\ RawInputs
    /\ validation = Undefined
    /\ InitStore
    /\ loader = LoaderIdle

Validate ==
    /\ validation = Undefined
    /\ validation' = Some(validateGameData(raw))
    /\ UNCHANGED <<raw, store, attempt, now, history, loader>>

NextValidate == Validate

SpecValidate == InitValidate /\ [][NextValidate]_vars

(***************************************************************************)
(* One load attempt, with the loader's fetches followed one by one.  A     *)
(* promise reaction and the continuation of an await are microtasks: they  *)
(* run before the next network event is delivered.                         *)
(***************************************************************************)
Settled(f) == loader.file[f].pc \in {"fulfilled", "rejected"}

\* Promise.all has a settlement to react to, or loadGameData has a settled await
MicrotasksPending ==
    \/ loader.reactions # <<>>
    \/ loader.all.state \in {"fulfilled", "rejected"} /\ attempt[1].pc = "loading"

\* a network event of file f can be delivered
Deliverable(f, pc) == loader.file[f].pc = pc /\ ~MicrotasksPending

\* loadJsonFile of file f ends by throwing
Throw(f, thrown) ==
    loader' = [loader EXCEPT !.file[f] = [pc |-> "rejected", result |-> Some(thrown)],
                             !.reactions = Append(@, f)]

\* the first call of loadGameData: the store shows a load in progress and
\* loadRawGameData starts the five fetches
loadGameData_called ==
    /\ loadGameData(1)
    /\ loader' = LoaderStarted

\* loadJsonFile: fetch rejects
loadJsonFile_fetchRejected(f) ==
    /\ Deliverable(f, "fetching")
    /\ Throw(f, FetchFailed(DATA_FILES[f]))
    /\ UNCHANGED <<store, attempt, now, history, raw, validation>>

\* loadJsonFile: fetch resolves with a response that is not ok
loadJsonFile_badStatus(f, status) ==
    /\ Deliverable(f, "fetching")
    /\ Throw(f, BadStatus(DATA_FILES[f], status))
    /\ UNCHANGED <<store, attempt, now, history, raw, validation>>

\* loadJsonFile: fetch resolves with an ok response, whose body is read next
loadJsonFile_responded(f) ==
    /\ Deliverable(f, "fetching")
    /\ loader' = [loader EXCEPT !.file[f].pc = "parsing"]
    /\ UNCHANGED <<store, attempt, now, history, raw, validation>>

\* loadJsonFile: response.json() rejects
loadJsonFile_jsonRejected(f) ==
    /\ Deliverable(f, "parsing")
    /\ Throw(f, InvalidJson(DATA_FILES[f]))
    /\ UNCHANGED <<store, attempt, now, history, raw, validation>>

\* loadJsonFile: response.json() resolves and the parsed array is returned
loadJsonFile_returned(f, contents) ==
    /\ Deliverable(f, "parsing")
    /\ loader' = [loader EXCEPT !.file[f] = [pc |-> "fulfilled", result |-> Some(contents)],
                                !.reactions = Append(@, f)]
    /\ UNCHANGED <<store, attempt, now, history, raw, validation>>

\* mutant: a failed file counts as an empty array, and the promise resolves
\* once all five have settled
loadRawGameData_settled_Partial ==
    /\ loader.reactions # <<>>
    /\ loader' =
          [loader EXCEPT
              !.reactions = Tail(@),
              !.all = IF @.state = "pending" /\ \A g \in Files : Settled(g)
                      THEN [state |-> "fulfilled",
                            result |-> Some([g \in Files |->
                                IF loader.file[g].pc = "fulfilled"
                                THEN loader.file[g].result[1] ELSE <<>>])]
                      ELSE @]
    /\ UNCHANGED <<store, attempt, now, history, raw, validation>>

\* mutant: the promise resolves with what has arrived as soon as one file has
loadRawGameData_settled_Race ==
    /\ loader.reactions # <<>>
    /\ loader' =
          [loader EXCEPT
              !.reactions = Tail(@),
              !.all = IF @.state # "pending" THEN @
                      ELSE IF loader.file[Head(loader.reactions)].pc = "rejected"
                      THEN [state |-> "rejected",
                            result |-> loader.file[Head(loader.reactions)].result]
                      ELSE [state |-> "fulfilled",
                            result |-> Some([g \in Files |->
                                IF loader.file[g].pc = "fulfilled"
                                THEN loader.file[g].result[1] ELSE <<>>])]]
    /\ UNCHANGED <<store, attempt, now, history, raw, validation>>

\* loadRawGameData: Promise.all reacts to the settlement of one loadJsonFile.  It
\* rejects with the first rejection, resolves when the fifth file is fulfilled,
\* and once settled it ignores the rest
loadRawGameData_settled ==
    /\ loader.reactions # <<>>
    /\ loader' =
          [loader EXCEPT
              !.reactions = Tail(@),
              !.all = IF @.state # "pending" THEN @
                      ELSE IF loader.file[Head(loader.reactions)].pc = "rejected"
                      THEN [state |-> "rejected",
                            result |-> loader.file[Head(loader.reactions)].result]
                      ELSE IF \A g \in Files : loader.file[g].pc = "fulfilled"
                      THEN [state |-> "fulfilled",
                            result |-> Some([g \in Files |-> loader.file[g].result[1]])]
                      ELSE @]
    /\ UNCHANGED <<store, attempt, now, history, raw, validation>>

\* loadGameData resumes after `await loadRawGameData()`
loadGameData_resumed ==
    /\ loader.reactions = <<>>
    /\ loader.all.state \in {"fulfilled", "rejected"}
    /\ IF loader.all.state = "fulfilled"
       THEN loadGameData_resolved(1, loader.all.result[1])
       ELSE loadGameData_rejected(1, loader.all.result[1])
    /\ UNCHANGED loader

InitLoader ==
    /\ InitStore
    /\ raw = EmptyRawGameData
    /\ validation = Undefined
    /\ loader = LoaderIdle

NextLoader ==
    \/ loadGameData_called
    \/ \E f \in Files :
          \/ loadJsonFile_fetchRejected(f)
          \/ \E status \in HttpErrorStatuses : loadJsonFile_badStatus(f, status)
          \/ loadJsonFile_responded(f)
          \/ loadJsonFile_jsonRejected(f)
          \/ \E contents \in FileContents[f] : loadJsonFile_returned(f, contents)
    \/ loadRawGameData_settled
    \/ loadGameData_resumed

SpecLoader == InitLoader /\ [][NextLoader]_vars

\* Promise reactions and await continuations sit in the microtask queue, which
\* the event loop always drains; the network owes nothing
SpecLoaderLive ==
    /\ SpecLoader
    /\ WF_vars(loadRawGameData_settled)
    /\ WF_vars(loadGameData_resumed)

(***************************************************************************)
(* The table and index builders applied to one input, and the result put   *)
(* in the store for the lookups to read.                                   *)
(***************************************************************************)
InitBuild ==
    /\ TableInputs
    /\ validation = Undefined
    /\ InitStore
    /\ loader = LoaderIdle

Build ==
    /\ gameData = Null
    /\ gameData' = Some(buildGameDataMaps(raw))
    /\ indices' = Some(buildGameDataIndices(buildGameDataMaps(raw)))
    /\ UNCHANGED <<raw, validation, isLoading, error, lastUpdated, attempt, now, history,
                   loader>>

NextBuild == Build

SpecBuild == InitBuild /\ [][NextBuild]_vars

(***************************************************************************)
(* A caller of the lookup layer that changes the arrays it is handed.  A   *)
(* lookup returns either a new array or the very array the store holds; a  *)
(* change to the latter is a change to the store's data.                   *)
(***************************************************************************)
\* the grouped lookups: `return indices.<index>.get(key) ?? []`, and the
\* precomputed branch of getRailsByMinCapacity
NumericLookups ==
    {[fn |-> "getItemsByTier", index |-> "itemsByTier", key |-> k] : k \in {0, 1}}
    \cup {[fn |-> "getRailsByMinCapacity", index |-> "railsByMinCapacity", key |-> k] :
            k \in {120, 180, 240}}

GroupedLookups ==
    {[fn |-> "getItemsByType", index |-> "itemsByType", key |-> k] :
        k \in {"raw", "processed", "ammo"}}
    \cup {[fn |-> "getBuildingsByType", index |-> "buildingsByType", key |-> k] :
            k \in {"extraction"}}
    \cup {[fn |-> "getBuildingsByCorporation", index |-> "buildingsByCorporation", key |-> k] :
            k \in Ids}
    \cup {[fn |-> "getRecipesByBuilding", index |-> "recipesByBuilding", key |-> k] : k \in Ids}
    \cup {[fn |-> "getRecipesProducing", index |-> "recipesByOutputItem", key |-> k] :
            k \in Ids}
    \cup {[fn |-> "getRecipesConsuming", index |-> "recipesByInputItem", key |-> k] :
            k \in Ids}

\* the lookups that build the array they return: Array.from, filter, a local array
CopyingLookups ==
    {"getAllItems", "getAllBuildings", "getAllRecipes", "getAllRails", "getAllCorporations",
     "getRewardsByType", "getRailsUnlockedBy", "getBuildingsUnlockedBy"}

ArrayOps == {"push", "pop"}

\* array.pop(), or array.push(array[0])
Mutated(array, op) ==
    IF array = <<>> THEN array
    ELSE IF op = "pop" THEN SubSeq(array, 1, Len(array) - 1)
    ELSE Append(array, array[1])

\* a grouped lookup is called and the array it returned is changed: for a key
\* the index has, that is the index's own array
Caller_mutatesGroup(call, op) ==
    /\ indices # Null
    /\ now < MaxMutations
    /\ now' = now + 1
    /\ indices' =
          IF MapHas(indices[1][call.index], call.key)
          THEN Some([indices[1] EXCEPT ![call.index] =
                        MapSet(@, call.key, Mutated(MapGet(@, call.key)[1], op))])
          ELSE indices
    /\ UNCHANGED <<gameData, isLoading, error, lastUpdated, raw, validation, attempt,
                   history, loader>>

\* getRewardsAtLevel is called and the array it returned is changed: it is the
\* rewards array of the level, which the corporation record in the table holds too
Caller_mutatesRewards(corpId, level, op) ==
    /\ indices # Null /\ gameData # Null
    /\ now < MaxMutations
    /\ now' = now + 1
    /\ IF MapHas(indices[1].rewardsByCorpLevel, corpId)
          /\ MapHas(MapGet(indices[1].rewardsByCorpLevel, corpId)[1], level)
       THEN LET levelMap == MapGet(indices[1].rewardsByCorpLevel, corpId)[1]
                rewards == Mutated(MapGet(levelMap, level)[1], op)
                corp == MapGet(gameData[1].corporations, corpId)[1]
                \* the level whose array the index holds: the last with this number
                k == CHOOSE k \in 1..Len(corp.levels) :
                        /\ corp.levels[k].level = level
                        /\ \A j \in (k + 1)..Len(corp.levels) : corp.levels[j].level # level
            IN  /\ indices' = Some([indices[1] EXCEPT !.rewardsByCorpLevel =
                                       MapSet(@, corpId, MapSet(levelMap, level, rewards))])
                /\ gameData' = Some([gameData[1] EXCEPT !.corporations =
                                        MapSet(@, corpId,
                                               [corp EXCEPT !.levels[k].rewards = rewards])])
       ELSE UNCHANGED <<gameData, indices>>
    /\ UNCHANGED <<isLoading, error, lastUpdated, raw, validation, attempt, history, loader>>

\* a lookup that returns a new array is called and that array is changed
Caller_mutatesCopy(fn, op) ==
    /\ indices # Null /\ gameData # Null
    /\ now < MaxMutations
    /\ now' = now + 1
    /\ UNCHANGED <<store, raw, validation, attempt, history, loader>>

\* the store holds a dataset that a load can publish
InitCaller ==
    /\ raw \in {data \in LoadableData : validateGameData(data).isValid}
    /\ validation = Undefined
    /\ InitStore
    /\ loader = LoaderIdle

NextCaller ==
    \/ Build
    \/ \E call \in GroupedLookups, op \in ArrayOps : Caller_mutatesGroup(call, op)
    \/ \E call \in NumericLookups, op \in ArrayOps : Caller_mutatesGroup(call, op)
    \/ \E corpId \in Ids, level \in {1, 9}, op \in ArrayOps :
          Caller_mutatesRewards(corpId, level, op)
    \/ \E fn \in CopyingLookups, op \in ArrayOps : Caller_mutatesCopy(fn, op)

SpecCaller == InitCaller /\ [][NextCaller]_vars

(***************************************************************************)
(* Properties of the validator.                                            *)
(***************************************************************************)
Validated == validation # Undefined

\* the positions of the violations that satisfy P
ErrorsWhere(P(_)) ==
    {k \in 1..Len(validation[1].errors) : P(validation[1].errors[k])}

Collection(data, file) ==
    CASE file = "items_catalog.json" -> data.items
      [] file = "buildings.json" -> data.buildings
      [] file = "recipes.json" -> data.recipes
      [] file = "rails.json" -> data.rails
      [] file = "corporations_components.json" -> data.corporations

Filenames ==
    {"items_catalog.json", "buildings.json", "recipes.json", "rails.json",
     "corporations_components.json"}

UniqueIds(entities) ==
    \A i, j \in 1..Len(entities) : entities[i].id = entities[j].id => i = j

\* the integrity conditions of the data model, stated on the data alone
ReferencesResolve(data) ==
    /\ \A i \in 1..Len(data.recipes) :
          /\ data.recipes[i].buildingId \in IdSet(data.buildings)
          /\ data.recipes[i].output.id \in IdSet(data.items)
          /\ \A k \in 1..Len(data.recipes[i].inputs) :
                data.recipes[i].inputs[k].id \in IdSet(data.items)
    /\ \A i \in 1..Len(data.buildings) :
          /\ data.buildings[i].recipeIds # Undefined =>
                \A k \in 1..Len(data.buildings[i].recipeIds[1]) :
                    data.buildings[i].recipeIds[1][k] \in IdSet(data.recipes)
          /\ data.buildings[i].unlockedBy # Undefined =>
                data.buildings[i].unlockedBy[1].corporation \in IdSet(data.corporations)
    /\ \A i \in 1..Len(data.rails) :
          data.rails[i].unlockedBy # Undefined =>
              data.rails[i].unlockedBy[1].corporation \in IdSet(data.corporations)
    /\ \A i \in 1..Len(data.corporations) :
          \A l \in 1..Len(data.corporations[i].levels) :
              \A k \in 1..Len(data.corporations[i].levels[l].rewards) :
                  LET reward == data.corporations[i].levels[l].rewards[k]
                  IN  /\ (reward.type = "building" /\ reward.id # Undefined) =>
                             reward.id[1] \in IdSet(data.buildings)
                      /\ (reward.type = "rail" /\ reward.id # Undefined) =>
                             reward.id[1] \in IdSet(data.rails)

Consistent(data) ==
    /\ \A file \in Filenames : UniqueIds(Collection(data, file))
    /\ ReferencesResolve(data)

\* C1: validateGameData returns isValid = true exactly when ids are unique within
\* each collection and every reference (recipe building, recipe items, building
\* recipes, unlocking corporations, building and rail rewards that carry an id)
\* names an existing record.
C1_ValidIffConsistent ==
    Validated => (validation[1].isValid <=> Consistent(raw))

\* C2: the result has isValid = true if and only if its errors list is empty.
C2_ValidIffNoErrors ==
    Validated => (validation[1].isValid <=> validation[1].errors = <<>>)

C2_Witness ==
    /\ Validated
    /\ ~validation[1].isValid
    /\ Len(validation[1].errors) >= 2
    /\ Len(duplicateErrors(raw)) = 0

Occurrences(entities, id) == Cardinality({i \in 1..Len(entities) : entities[i].id = id})

\* C9: in each collection an id that occurs k >= 1 times yields exactly k - 1
\* DUPLICATE_ID violations carrying that id and that collection's file name, an
\* id that does not occur yields none, and an id shared by two collections is
\* no duplicate.
C9_DuplicatesCounted ==
    Validated =>
        \A file \in Filenames : \A id \in Ids :
            LET k == Occurrences(Collection(raw, file), id)
            IN  Cardinality(ErrorsWhere(LAMBDA e :
                    /\ e.code = "DUPLICATE_ID"
                    /\ e.file = file
                    /\ e.entityId = id))
                = IF k = 0 THEN 0 ELSE k - 1

C9_Witness ==
    /\ Validated
    /\ Occurrences(raw.recipes, "a") = 3
    /\ Occurrences(raw.items, "a") = 1
    /\ Cardinality(ErrorsWhere(LAMBDA e : e.code = "DUPLICATE_ID")) = 2

\* the unresolved item references of the recipes with this id: <<recipe, 0>> for
\* its output, <<recipe, k>> for its k-th input
BadItemRefs(data, id) ==
    {<<i, 0>> : i \in {i \in 1..Len(data.recipes) :
                          /\ data.recipes[i].id = id
                          /\ data.recipes[i].output.id \notin IdSet(data.items)}}
    \cup
    UNION {{<<i, k>> : k \in {k \in 1..Len(data.recipes[i].inputs) :
                                 data.recipes[i].inputs[k].id \notin IdSet(data.items)}} :
           i \in {i \in 1..Len(data.recipes) : data.recipes[i].id = id}}

BadBuildingRefs(data, id) ==
    {i \in 1..Len(data.recipes) :
        /\ data.recipes[i].id = id
        /\ data.recipes[i].buildingId \notin IdSet(data.buildings)}

\* C10: recipes yield exactly one violation per unresolved reference: one
\* MISSING_BUILDING_REF per unresolved buildingId, one MISSING_ITEM_REF per
\* unresolved output and per unresolved entry of inputs, none for resolved ones.
C10_OnePerUnresolvedRecipeRef ==
    Validated =>
        \A id \in Ids :
            /\ Cardinality(ErrorsWhere(LAMBDA e :
                    /\ e.code = "MISSING_BUILDING_REF"
                    /\ e.file = "recipes.json"
                    /\ e.entityId = id))
               = Cardinality(BadBuildingRefs(raw, id))
            /\ Cardinality(ErrorsWhere(LAMBDA e :
                    /\ e.code = "MISSING_ITEM_REF"
                    /\ e.file = "recipes.json"
                    /\ e.entityId = id))
               = Cardinality(BadItemRefs(raw, id))

\* one recipe, resolved building and output, two inputs that are both unresolved
C10_Witness ==
    /\ Validated
    /\ Len(raw.recipes) = 1
    /\ raw.recipes[1].buildingId \in IdSet(raw.buildings)
    /\ raw.recipes[1].output.id \in IdSet(raw.items)
    /\ Len(raw.recipes[1].inputs) = 2
    /\ \A k \in 1..2 : raw.recipes[1].inputs[k].id \notin IdSet(raw.items)
    /\ Len(validation[1].errors) = 2
    /\ \A k \in 1..2 : validation[1].errors[k].code = "MISSING_ITEM_REF"

\* the rewards of the corporations with this id, as <<corporation, level, reward>>
RewardsOf(data, id) ==
    UNION {UNION {{<<i, l, k>> : k \in 1..Len(data.corporations[i].levels[l].rewards)} :
                  l \in 1..Len(data.corporations[i].levels)} :
           i \in {i \in 1..Len(data.corporations) : data.corporations[i].id = id}}

RewardAt(data, pos) == data.corporations[pos[1]].levels[pos[2]].rewards[pos[3]]

\* a reward the validator looks at: of type building or rail, with an id
Checkable(reward) == reward.type \in {"building", "rail"} /\ reward.id # Undefined

RewardViolations(id) ==
    ErrorsWhere(LAMBDA e :
        /\ e.file = "corporations_components.json"
        /\ e.code \in {"MISSING_BUILDING_REF", "MISSING_RAIL_REF"}
        /\ e.entityId = id)

\* C11: reward checking yields violations only for rewards of type building or
\* rail that have an id: there are never more reward violations for a
\* corporation than it has such rewards, and a corporation whose rewards are all
\* of other types or carry no id yields none, whatever ids they hold.
C11_OnlyCheckableRewardsReported ==
    Validated =>
        \A id \in Ids :
            Cardinality(RewardViolations(id))
                <= Cardinality({pos \in RewardsOf(raw, id) : Checkable(RewardAt(raw, pos))})

\* a utility reward whose id names no record, next to a building reward without
\* an id: the result is clean
C11_Witness ==
    /\ Validated
    /\ raw.buildings = <<>>
    /\ raw.rails = <<>>
    /\ Len(raw.corporations) = 1
    /\ Len(raw.corporations[1].levels) = 1
    /\ raw.corporations[1].levels[1].rewards =
           <<[type |-> "utility", id |-> Some("a")], [type |-> "building", id |-> Undefined]>>
    /\ validation[1].errors = <<>>

\* what each step finds on its own, counted on the data
DuplicateCount(data) ==
    LET n(entities) == Len(entities) - Cardinality(IdSet(entities))
    IN  n(data.items) + n(data.buildings) + n(data.recipes) + n(data.rails)
        + n(data.corporations)

RecipeRefCount(data) ==
    Cardinality(UNION {BadItemRefs(data, id) : id \in Ids})
    + Cardinality(UNION {BadBuildingRefs(data, id) : id \in Ids})

BuildingRefCount(data) ==
    Cardinality(UNION {{<<i, k>> : k \in {k \in 1..Len(data.buildings[i].recipeIds[1]) :
                            data.buildings[i].recipeIds[1][k] \notin IdSet(data.recipes)}} :
                       i \in {i \in 1..Len(data.buildings) :
                                 data.buildings[i].recipeIds # Undefined}})
    + Cardinality({i \in 1..Len(data.buildings) :
                      /\ data.buildings[i].unlockedBy # Undefined
                      /\ data.buildings[i].unlockedBy[1].corporation
                             \notin IdSet(data.corporations)})

RailRefCount(data) ==
    Cardinality({i \in 1..Len(data.rails) :
                    /\ data.rails[i].unlockedBy # Undefined
                    /\ data.rails[i].unlockedBy[1].corporation \notin IdSet(data.corporations)})

RewardRefCount(data) ==
    Cardinality({pos \in UNION {RewardsOf(data, id) : id \in Ids} :
                    LET reward == RewardAt(data, pos)
                    IN  /\ TruthyString(reward.id)
                        /\ \/ reward.type = "building" /\ reward.id[1] \notin IdSet(data.buildings)
                           \/ reward.type = "rail" /\ reward.id[1] \notin IdSet(data.rails)})

\* C12: the validator never stops at the first violation: the number of
\* violations returned is the sum of what the duplicate scan and the recipe,
\* building, rail and reward checks each find on the input.
C12_AllStepsAccumulate ==
    Validated =>
        Len(validation[1].errors)
            = DuplicateCount(raw) + RecipeRefCount(raw) + BuildingRefCount(raw)
              + RailRefCount(raw) + RewardRefCount(raw)

\* every step finds something, and all of it is in the one result
C12_Witness ==
    /\ Validated
    /\ DuplicateCount(raw) = 1
    /\ RecipeRefCount(raw) = 3
    /\ BuildingRefCount(raw) = 2
    /\ RailRefCount(raw) = 1
    /\ RewardRefCount(raw) = 2
    /\ Len(validation[1].errors) = 9
    /\ {validation[1].errors[k].code : k \in 1..9}
           = {"DUPLICATE_ID", "MISSING_BUILDING_REF", "MISSING_ITEM_REF",
              "MISSING_RECIPE_REF", "MISSING_CORPORATION_REF", "MISSING_RAIL_REF"}
    /\ {validation[1].errors[k].file : k \in 1..9} = Filenames

(***************************************************************************)
(* Properties of the loader.                                               *)
(***************************************************************************)
\* the errors loadJsonFile can throw for file f
ErrorsOf(f) ==
    {FetchFailed(DATA_FILES[f]), InvalidJson(DATA_FILES[f])}
    \cup {BadStatus(DATA_FILES[f], status) : status \in HttpErrorStatuses}

Rejected(f) == loader.file[f].pc = "rejected"

Fulfilled(f) == loader.file[f].pc = "fulfilled"

\* C13: loadRawGameData returns all five parsed arrays or fails as a whole: it
\* resolves only with the five arrays the files delivered; once a file has
\* failed it is rejected, with the GameDataLoadError of a failed file (which
\* names the file and, for a bad status, the status); and the caller is handed
\* either all five arrays or that error, never a partial set.
C13_AllFiveOrError ==
    /\ loader.all.state = "fulfilled" =>
          \A f \in Files :
              Fulfilled(f) /\ loader.all.result[1][f] = loader.file[f].result[1]
    /\ loader.all.state = "rejected" =>
          \E f \in Files :
              /\ Rejected(f)
              /\ loader.all.result = loader.file[f].result
              /\ loader.all.result[1] \in ErrorsOf(f)
              /\ loader.all.result[1].filename = DATA_FILES[f]
    /\ ((\E f \in Files : Rejected(f)) /\ loader.reactions = <<>>) =>
          loader.all.state = "rejected"
    /\ attempt[1].delivered # Undefined =>
          /\ loader.all.state = "fulfilled"
          /\ attempt[1].delivered = loader.all.result
    /\ attempt[1].pc = "unloaded" =>
          /\ loader.all.state = "rejected"
          /\ error = Some(loader.all.result[1].message)

\* rails.json answered 404 after the items had arrived: the caller got the error
C13_Witness ==
    /\ Fulfilled("items")
    /\ Rejected("rails")
    /\ loader.all.state = "rejected"
    /\ loader.all.result = Some(BadStatus("rails.json", 404))
    /\ attempt[1].pc = "unloaded"
    /\ attempt[1].delivered = Undefined
    /\ error = Some("Game data file not found: rails.json (HTTP 404)")

PastLoader == attempt[1].pc \in {"ready", "invalid", "unloaded"}

\* C14: a load attempt goes on to validation, or to recording a failure, only
\* after all five fetches have settled.
C14_ProceedsAfterAllSettled ==
    PastLoader => \A f \in Files : Settled(f)

\* C14, amended: a load attempt goes on to validation only after all five files
\* have been delivered, and to recording a loader failure only after a file has
\* failed, which can be while other fetches are still pending.
C14_ProceedsAfterAllFulfilledOrOneFailed ==
    /\ attempt[1].pc \in {"ready", "invalid"} => \A f \in Files : Fulfilled(f)
    /\ attempt[1].pc = "unloaded" => \E f \in Files : Rejected(f)

\* the failure is in the store while four fetches have not settled
C14_Witness ==
    /\ attempt[1].pc = "unloaded"
    /\ ~isLoading
    /\ error # Null
    /\ Cardinality({f \in Files : ~Settled(f)}) = 4

(***************************************************************************)
(* Properties of the table and index builders.                             *)
(***************************************************************************)
Built == gameData # Null

Table(data, file) ==
    CASE file = "items_catalog.json" -> data.items
      [] file = "buildings.json" -> data.buildings
      [] file = "recipes.json" -> data.recipes
      [] file = "rails.json" -> data.rails
      [] file = "corporations_components.json" -> data.corporations

\* C15: for a collection of n records with pairwise distinct ids the table has
\* exactly n entries, looking up the id of an input record returns that record,
\* and looking up any other id returns nothing.
C15_TableRoundTrip ==
    Built =>
        \A file \in Filenames :
            LET entities == Collection(raw, file)
                table == Table(gameData[1], file)
            IN  UniqueIds(entities) =>
                    /\ Len(table) = Len(entities)
                    /\ \A i \in 1..Len(entities) :
                          MapGet(table, entities[i].id) = Some(entities[i])
                    /\ \A id \in (TableIds \cup {"none"}) \ IdSet(entities) :
                          MapGet(table, id) = Undefined

\* three rails with three ids, and a table of three
C15_Witness ==
    /\ Built
    /\ Len(raw.rails) = 3
    /\ UniqueIds(raw.rails)
    /\ Len(gameData[1].rails) = 3
    /\ MapGet(gameData[1].rails, "c") = Some(raw.rails[1])

Ascending(rails) ==
    \A j, k \in 1..Len(rails) : j < k => rails[j].capacity <= rails[k].capacity

\* C16: for every threshold, getRailsByMinCapacity returns exactly the rails of
\* the table with capacity >= threshold, each once, in ascending order of
\* capacity (none when the threshold exceeds every capacity), and a
\* precomputed list equals what filtering the sorted array gives.
C16_RailsAtOrAbove ==
    Built =>
        \A t \in {0, 90, 120, 180, 240, 1000} :
            LET rails == MapValues(gameData[1].rails)
                answer == getRailsByMinCapacity(t)
                filtered == Filter(indices[1].railsSortedByCapacity,
                                   LAMBDA rail : rail.capacity >= t)
            IN  /\ ~answer.threw
                /\ \A i \in 1..Len(rails) :
                      Cardinality({k \in 1..Len(answer.value) : answer.value[k] = rails[i]})
                          = IF rails[i].capacity >= t THEN 1 ELSE 0
                /\ Len(answer.value)
                       = Cardinality({i \in 1..Len(rails) : rails[i].capacity >= t})
                /\ Ascending(answer.value)
                /\ answer.value = filtered
                /\ MapHas(indices[1].railsByMinCapacity, t) =>
                       MapGet(indices[1].railsByMinCapacity, t)[1] = filtered

\* capacities 240, 120, 240: both branches are taken, with ties and out of order
C16_Witness ==
    /\ Built
    /\ Len(raw.rails) = 3
    /\ UniqueIds(raw.rails)
    /\ <<raw.rails[1].capacity, raw.rails[2].capacity, raw.rails[3].capacity>>
           = <<240, 120, 240>>
    /\ MapHas(indices[1].railsByMinCapacity, 240)
    /\ ~MapHas(indices[1].railsByMinCapacity, 180)
    /\ getRailsByMinCapacity(240).value = <<raw.rails[1], raw.rails[3]>>
    /\ getRailsByMinCapacity(180).value = <<raw.rails[1], raw.rails[3]>>
    /\ getRailsByMinCapacity(120).value = <<raw.rails[2], raw.rails[1], raw.rails[3]>>
    /\ getRailsByMinCapacity(1000).value = <<>>

(***************************************************************************)
(* Properties of the store and of the lookup layer.                        *)
(***************************************************************************)
\* the arguments lookups are called with: keys that occur and keys that do not
QueryIds == Ids \cup {"none"}

QueryItemTypes == {"raw", "processed", "ammo"}

QueryBuildingTypes == {"extraction", "storage"}

QueryTiers == {0, 1, 7}

QueryCapacities == {0, 90, 120, 180, 240, 1000}

QueryLevels == {1, 9}

QueryRewardTypes == {"building", "rail", "currency"}

NotLoaded(call) ==
    /\ call.threw
    /\ call.error \in {"Game data not loaded. Call loadGameData() first.",
                       "Game data indices not loaded. Call loadGameData() first."}

\* every lookup function, on every argument, throws the not-loaded error
EveryLookupThrows ==
    /\ NotLoaded(getAllItems) /\ NotLoaded(getAllBuildings) /\ NotLoaded(getAllRecipes)
    /\ NotLoaded(getAllRails) /\ NotLoaded(getAllCorporations)
    /\ \A id \in QueryIds :
          /\ NotLoaded(getItem(id)) /\ NotLoaded(getBuilding(id)) /\ NotLoaded(getRecipe(id))
          /\ NotLoaded(getRail(id)) /\ NotLoaded(getCorporation(id))
          /\ NotLoaded(getBuildingsByCorporation(id))
          /\ NotLoaded(getRecipesByBuilding(id))
          /\ NotLoaded(getRecipesProducing(id))
          /\ NotLoaded(getRecipesConsuming(id))
          /\ NotLoaded(getCorporationLevels(id))
          /\ \A level \in QueryLevels :
                /\ NotLoaded(getRewardsAtLevel(id, level))
                /\ NotLoaded(getRailsUnlockedBy(id, level))
                /\ NotLoaded(getBuildingsUnlockedBy(id, level))
                /\ \A type \in QueryRewardTypes : NotLoaded(getRewardsByType(id, level, type))
    /\ \A type \in QueryItemTypes : NotLoaded(getItemsByType(type))
    /\ \A tier \in QueryTiers : NotLoaded(getItemsByTier(tier))
    /\ \A type \in QueryBuildingTypes : NotLoaded(getBuildingsByType(type))
    /\ \A capacity \in QueryCapacities : NotLoaded(getRailsByMinCapacity(capacity))

\* attempt a takes the step that ends it in failure
Fails(a) == attempt[a].pc = "loading" /\ attempt'[a].pc \in {"unloaded", "invalid"}

\* attempt a takes the step that ends it in success
Succeeds(a) == attempt[a].pc = "loading" /\ attempt'[a].pc = "ready"

\* C3: a load attempt that ends in a retrieval error or a validation failure
\* publishes nothing: its last step leaves gameData and indices as they were and
\* leaves the store with isLoading = false and a non-null error.
C3_FailedLoadPublishesNothing ==
    [][\A a \in Attempts :
           Fails(a) => /\ gameData' = gameData
                       /\ indices' = indices
                       /\ isLoading' = FALSE
                       /\ error' # Null]_vars

\* both kinds of failure have happened and the store holds no dataset
C3_Witness ==
    /\ \E a \in Attempts : attempt[a].pc = "unloaded"
    /\ \E a \in Attempts : attempt[a].pc = "invalid"
    /\ gameData = Null /\ indices = Null
    /\ isLoading = FALSE /\ error # Null

\* C4: once a dataset is published, only a load that succeeds replaces it: every
\* other step (a call of loadGameData, a load that fails) leaves gameData and
\* indices unchanged, and lookups keep answering from them.
C4_FailedReloadKeepsData ==
    [][(gameData # Null /\ ~(\E a \in Attempts : Succeeds(a))) =>
           /\ gameData' = gameData
           /\ indices' = indices
           /\ ~getAllItems'.threw /\ getAllItems' = getAllItems
           /\ \A type \in QueryItemTypes :
                 ~getItemsByType(type)'.threw /\ getItemsByType(type)' = getItemsByType(type)]_vars

\* a load succeeded, a later one failed, and the store shows both
C4_Witness ==
    /\ \E a \in Attempts : attempt[a].pc \in {"unloaded", "invalid"}
    /\ history.failedSinceSuccess
    /\ gameData # Null /\ indices # Null
    /\ error # Null
    /\ ~getAllItems.threw /\ Len(getAllItems.value) > 0

\* C5 as stated: after a load attempt has failed, every lookup called before the
\* next successful load throws the not-loaded error.
C5_LookupsThrowAfterFailure ==
    history.failedSinceSuccess => EveryLookupThrows

\* C5 as amended: after a load attempt has failed, every lookup called before the
\* next successful load throws the not-loaded error if no load attempt succeeded
\* before the failure.
C5_LookupsThrowAfterFirstFailure ==
    (history.failedSinceSuccess /\ ~history.everSucceeded) => EveryLookupThrows

C5_Witness ==
    /\ history.failedSinceSuccess
    /\ ~history.everSucceeded
    /\ InFlight = {}
    /\ error # Null
    /\ NotLoaded(getRailsByMinCapacity(120))

\* C6: while no load has ever succeeded, every lookup function throws the
\* not-loaded error, whatever load attempts are in flight or have failed.
C6_LookupsThrowBeforeFirstSuccess ==
    ~history.everSucceeded => EveryLookupThrows

\* no load has succeeded; one has failed and another is in flight
C6_Witness ==
    /\ ~history.everSucceeded
    /\ InFlight # {}
    /\ \E a \in Attempts : attempt[a].pc \in {"unloaded", "invalid"}
    /\ NotLoaded(getItemsByType("raw"))

\* C7: of two load attempts that overlap (one is called while the other has not
\* finished), at most one writes the store.
C7_OverlappingLoadsSingleWriter ==
    \A a \in Attempts : \A b \in attempt[a].overlaps :
        ~(attempt[a].writes > 0 /\ attempt[b].writes > 0)

\* C8: gameData and indices are both null or both the outputs of one and the same
\* load attempt: the tables built from the data that attempt's loader delivered
\* and the indices built from those tables.
C8_SnapshotFromOneLoad ==
    /\ gameData = Null <=> indices = Null
    /\ history.dataFrom = history.indicesFrom
    /\ gameData # Null =>
          /\ history.dataFrom \in Attempts
          /\ attempt[history.dataFrom].pc = "ready"
          /\ gameData[1] = buildGameDataMaps(attempt[history.dataFrom].delivered[1])
          /\ indices[1] = buildGameDataIndices(gameData[1])

\* two loads overlapped and both succeeded with different data; the store holds
\* the output of the one called first
C8_Witness ==
    /\ gameData # Null
    /\ history.dataFrom = 1
    /\ attempt[2].pc = "ready"
    /\ 1 \in attempt[2].overlaps
    /\ attempt[2].delivered # attempt[1].delivered

\* the records of a table that satisfy P
Having(table, P(_)) == {i \in 1..Len(table) : P(table[i].value)}

Answers(call, v) == ~call.threw /\ call.value = v

C18_CallerCannotChangeDataset ==
    (gameData # Null /\ indices # Null) =>
        /\ gameData[1] = buildGameDataMaps(raw)
        /\ indices[1] = buildGameDataIndices(buildGameDataMaps(raw))
        /\ \A type \in QueryItemTypes :
              getItemsByType(type).value
                  = GetOrEmpty(buildItemsByType(buildGameDataMaps(raw).items), type)

\* attempt a takes its first step: loadGameData is called
Starts(a) == attempt[a].pc = "idle" /\ attempt'[a].pc = "loading"

\* C19: calling loadGameData puts the store in the loading state at once, with
\* isLoading = true and error = null whatever the error was, and without touching
\* the data; the step that ends an attempt in success leaves the tables and
\* indices built from what the loader delivered, isLoading = false, error = null
\* and lastUpdated set.
C19_LoadingThenReady ==
    [][\A a \in Attempts :
           /\ Starts(a) => /\ isLoading' = TRUE
                           /\ error' = Null
                           /\ UNCHANGED <<gameData, indices, lastUpdated>>
           /\ Succeeds(a) =>
                 /\ gameData' = Some(buildGameDataMaps(attempt'[a].delivered[1]))
                 /\ indices' = Some(buildGameDataIndices(gameData'[1]))
                 /\ isLoading' = FALSE
                 /\ error' = Null
                 /\ lastUpdated' # Null]_vars

\* the first attempt had failed and left its error; the second, called after it,
\* is loading and the error is gone
C19_Witness ==
    /\ attempt[1].pc = "unloaded"
    /\ attempt[2].pc = "loading"
    /\ attempt[2].overlaps = {}
    /\ isLoading
    /\ error = Null

PipelineOrder ==
    <<"loadRawGameData", "validateGameData", "buildGameDataMaps", "buildGameDataIndices">>

\* C20: within a load attempt the calls are made in the order load, validate,
\* build tables, build indices, and the builders are called only for data that
\* validateGameData found valid: an attempt whose data has a violation stops
\* after the validator, and one whose loader failed stops after the loader.
C20_ValidateBeforeBuild ==
    \A a \in Attempts :
        LET calls == attempt[a].calls
        IN  /\ calls = SubSeq(PipelineOrder, 1, Len(calls))
            /\ Len(calls) > 2 =>
                  /\ Len(calls) = 4
                  /\ attempt[a].delivered # Undefined
                  /\ validateGameData(attempt[a].delivered[1]).isValid
            /\ attempt[a].pc = "ready" => Len(calls) = 4
            /\ attempt[a].pc = "invalid" => Len(calls) = 2
            /\ attempt[a].pc = "unloaded" => Len(calls) = 1

\* one attempt stopped at the validator, the other went through the whole pipeline
C20_Witness ==
    /\ attempt[1].pc = "invalid"
    /\ attempt[1].calls = <<"loadRawGameData", "validateGameData">>
    /\ ~validateGameData(attempt[1].delivered[1]).isValid
    /\ attempt[2].pc = "ready"
    /\ attempt[2].calls = PipelineOrder

\* C21: the store holds the result of the attempt that completed last, whichever
\* attempt was started last: the dataset of that attempt if it succeeded, and
\* its error if it failed (until the next call of loadGameData clears the error).
C21_LastCompletionWins ==
    LET a == history.lastFinished
    IN  a # 0 =>
            /\ attempt[a].pc = "ready" =>
                  /\ gameData = Some(buildGameDataMaps(attempt[a].delivered[1]))
                  /\ indices = Some(buildGameDataIndices(gameData[1]))
                  /\ ~history.startedSince => error = Null
            /\ (attempt[a].pc \in {"invalid", "unloaded"} /\ ~history.startedSince) =>
                  /\ error # Null
                  /\ error = attempt[a].failure

\* the second attempt started while the first was in flight and failed its
\* validation; the first then succeeded and replaced the second's error
C21_Witness ==
    /\ 1 \in attempt[2].overlaps
    /\ attempt[2].pc = "invalid"
    /\ attempt[1].pc = "ready"
    /\ history.lastFinished = 1
    /\ error = Null
    /\ gameData = Some(buildGameDataMaps(attempt[1].delivered[1]))

\* C22: a load attempt whose five fetches have settled finishes: the store
\* leaves the loading state, with isLoading = false and either a published
\* dataset or an error.
C22_SettledLoadFinishes ==
    (attempt[1].pc = "loading" /\ \A f \in Files : Settled(f))
        ~> (/\ attempt[1].pc \in {"ready", "invalid", "unloaded"}
            /\ ~isLoading
            /\ gameData # Null \/ error # Null)

\* all five files arrived, the data failed validation, and the store shows the error
C22_Witness ==
    /\ \A f \in Files : Fulfilled(f)
    /\ attempt[1].pc = "invalid"
    /\ ~isLoading
    /\ gameData = Null
    /\ error # Null

\* C23: isLoading is true in every state in which a load attempt is in flight.
C23_LoadingWhileInFlight ==
    InFlight # {} => isLoading

\* the position of the last record with this id
LastWith(entities, id) ==
    CHOOSE i \in 1..Len(entities) :
        /\ entities[i].id = id
        /\ \A j \in (i + 1)..Len(entities) : entities[j].id # id

\* C24: for a collection in which ids repeat, the table has one entry per
\* distinct id, and its value is the last record of the input with that id.
C24_LastDuplicateWins ==
    Built =>
        \A file \in Filenames :
            LET entities == Collection(raw, file)
                table == Table(gameData[1], file)
            IN  /\ Len(table) = Cardinality(IdSet(entities))
                /\ \A id \in IdSet(entities) :
                      /\ Cardinality({k \in 1..Len(table) : table[k].key = id}) = 1
                      /\ MapGet(table, id) = Some(entities[LastWith(entities, id)])

\* item a comes first as a raw item and last as a processed one
C24_Witness ==
    /\ Built
    /\ Len(raw.items) = 3
    /\ raw.items[1] = [id |-> "a", type |-> "raw", tier |-> 0]
    /\ raw.items[2].id = "b"
    /\ raw.items[3] = [id |-> "a", type |-> "processed", tier |-> 1]
    /\ Len(gameData[1].items) = 2
    /\ MapGet(gameData[1].items, "a") = Some(raw.items[3])

\* how many times `record` occurs in the group of `index` under `key`
Times(index, key, record) ==
    LET group == GetOrEmpty(index, key)
    IN  Cardinality({k \in 1..Len(group) : group[k] = record})

KeySet(index) == {index[k].key : k \in 1..Len(index)}

InputIds(recipe) == {recipe.inputs[i].id : i \in 1..Len(recipe.inputs)}

\* C25: a recipe of the table is in the group of an item id exactly when that
\* id is one of its inputs' ids, so a recipe with N distinct input items is
\* under exactly N keys and a recipe with no input under none; the index has no
\* key that is not an input of some recipe.
C25_UnderEachInputItem ==
    Built =>
        LET recipes == MapValues(gameData[1].recipes)
            index == indices[1].recipesByInputItem
        IN  /\ \A i \in 1..Len(recipes) :
                  /\ \A key \in TableIds \cup KeySet(index) :
                        Times(index, key, recipes[i]) > 0 <=> key \in InputIds(recipes[i])
                  /\ Cardinality({key \in KeySet(index) : Times(index, key, recipes[i]) > 0})
                         = Cardinality(InputIds(recipes[i]))
            /\ \A key \in KeySet(index) :
                  \E i \in 1..Len(recipes) : key \in InputIds(recipes[i])

\* one recipe consumes a and b, the other consumes nothing
C25_Witness ==
    /\ Built
    /\ Len(raw.recipes) = 2
    /\ raw.recipes[1].id # raw.recipes[2].id
    /\ raw.recipes[1].inputs = <<[id |-> "a"], [id |-> "b"]>>
    /\ raw.recipes[2].inputs = <<>>
    /\ KeySet(indices[1].recipesByInputItem) = {"a", "b"}
    /\ GetOrEmpty(indices[1].recipesByInputItem, "a") = <<raw.recipes[1]>>
    /\ GetOrEmpty(indices[1].recipesByInputItem, "b") = <<raw.recipes[1]>>

\* the position of a record in a sequence that holds it
PositionIn(records, record) == CHOOSE i \in 1..Len(records) : records[i] = record

\* `listed` holds exactly the rails of `rails` with capacity >= c, each once, by
\* ascending capacity, rails of one capacity in the order they have in `rails`
RailsFrom(listed, rails, c) ==
    /\ \A i \in 1..Len(rails) :
          Cardinality({k \in 1..Len(listed) : listed[k] = rails[i]})
              = IF rails[i].capacity >= c THEN 1 ELSE 0
    /\ Len(listed) = Cardinality({i \in 1..Len(rails) : rails[i].capacity >= c})
    /\ \A j, k \in 1..Len(listed) :
          j < k =>
              \/ listed[j].capacity < listed[k].capacity
              \/ /\ listed[j].capacity = listed[k].capacity
                 /\ PositionIn(rails, listed[j]) < PositionIn(rails, listed[k])

\* C26: the keys of railsByMinCapacity are exactly the capacities that occur
\* among the rails of the table; the value under c is the rails with capacity
\* >= c, by ascending capacity and, within one capacity, in the table's order;
\* railsSortedByCapacity is every rail once in that order.
C26_RailsByMinCapacity ==
    Built =>
        LET rails == MapValues(gameData[1].rails)
            index == indices[1].railsByMinCapacity
        IN  /\ KeySet(index) = {rails[i].capacity : i \in 1..Len(rails)}
            /\ Len(index) = Cardinality(KeySet(index))
            /\ \A c \in KeySet(index) : RailsFrom(MapGet(index, c)[1], rails, c)
            /\ RailsFrom(indices[1].railsSortedByCapacity, rails, 0)

\* capacities 240, 120, 240 under three ids
C26_Witness ==
    /\ Built
    /\ Len(raw.rails) = 3
    /\ <<raw.rails[1].id, raw.rails[2].id, raw.rails[3].id>> = <<"a", "b", "c">>
    /\ <<raw.rails[1].capacity, raw.rails[2].capacity, raw.rails[3].capacity>>
           = <<240, 120, 240>>
    /\ KeySet(indices[1].railsByMinCapacity) = {120, 240}
    /\ indices[1].railsSortedByCapacity = <<raw.rails[2], raw.rails[1], raw.rails[3]>>
    /\ MapGet(indices[1].railsByMinCapacity, 240) = Some(<<raw.rails[1], raw.rails[3]>>)
    /\ MapGet(indices[1].railsByMinCapacity, 120)
           = Some(indices[1].railsSortedByCapacity)

\* the rewards array of a corporation's level in the table (the last entry of
\* that level), or none
LevelRewards(corpId, level) ==
    IF ~MapHas(gameData[1].corporations, corpId) THEN <<>>
    ELSE LET levels == MapGet(gameData[1].corporations, corpId)[1].levels
             at == {i \in 1..Len(levels) : levels[i].level = level}
         IN  IF at = {} THEN <<>>
             ELSE levels[CHOOSE i \in at : \A j \in at : j <= i].rewards

\* the records of `table` that the rewards of `type` carrying an id name, in
\* reward order
Resolved(rewards, type, table) ==
    FlatMap(LAMBDA reward :
                IF reward.type = type /\ reward.id # Undefined /\ MapHas(table, reward.id[1])
                THEN <<MapGet(table, reward.id[1])[1]>>
                ELSE <<>>,
            rewards)

\* C27: on a loaded dataset getRailsUnlockedBy and getBuildingsUnlockedBy do
\* not throw, and return the records of the rails (buildings) table named by
\* the rail (building) rewards of the level that carry an id, in reward order;
\* rewards without an id or with an id that is not in the table are left out.
C27_UnlockedByResolves ==
    Built =>
        \A corpId \in QueryIds, level \in QueryLevels :
            /\ Answers(getRailsUnlockedBy(corpId, level),
                       Resolved(LevelRewards(corpId, level), "rail", gameData[1].rails))
            /\ Answers(getBuildingsUnlockedBy(corpId, level),
                       Resolved(LevelRewards(corpId, level), "building", gameData[1].buildings))

\* what the two lookups do return: as Resolved, with an empty-string id counted
\* as no id
ResolvedNonEmpty(rewards, type, table) ==
    Resolved(Filter(rewards, LAMBDA reward : reward.id # Some("")), type, table)

UnlockedByResolvesNonEmptyIds ==
    Built =>
        \A corpId \in QueryIds, level \in QueryLevels :
            /\ Answers(getRailsUnlockedBy(corpId, level),
                       ResolvedNonEmpty(LevelRewards(corpId, level), "rail", gameData[1].rails))
            /\ Answers(getBuildingsUnlockedBy(corpId, level),
                       ResolvedNonEmpty(LevelRewards(corpId, level), "building",
                                        gameData[1].buildings))

GroupedIndexNames ==
    {"recipesByBuilding", "recipesByOutputItem", "recipesByInputItem",
     "buildingsByType", "buildingsByCorporation", "itemsByType", "itemsByTier"}

GroupedIndex(name) ==
    CASE name = "recipesByBuilding" -> indices[1].recipesByBuilding
      [] name = "recipesByOutputItem" -> indices[1].recipesByOutputItem
      [] name = "recipesByInputItem" -> indices[1].recipesByInputItem
      [] name = "buildingsByType" -> indices[1].buildingsByType
      [] name = "buildingsByCorporation" -> indices[1].buildingsByCorporation
      [] name = "itemsByType" -> indices[1].itemsByType
      [] name = "itemsByTier" -> indices[1].itemsByTier

\* the collection an index is derived from
GroupedFile(name) ==
    CASE name \in {"recipesByBuilding", "recipesByOutputItem", "recipesByInputItem"} ->
             DATA_FILES.recipes
      [] name \in {"buildingsByType", "buildingsByCorporation"} -> DATA_FILES.buildings
      [] name \in {"itemsByType", "itemsByTier"} -> DATA_FILES.items

\* any two members of `group` stand in `records` in the order they have in `group`
InOrderOf(group, records) ==
    \A j, k \in 1..Len(group) :
        j < k =>
            \E p, q \in 1..Len(records) :
                p <= q /\ records[p] = group[j] /\ records[q] = group[k]

\* C28 as stated: within every group of every grouped index the records are in
\* the relative order they have in the input array of their collection.
C28_GroupsInArrayOrder ==
    Built =>
        \A name \in GroupedIndexNames :
            \A g \in 1..Len(GroupedIndex(name)) :
                InOrderOf(GroupedIndex(name)[g].value, Collection(raw, GroupedFile(name)))

\* C28 amended: within every group of every grouped index the records are in
\* the relative order in which the primary table iterates them; that is the
\* order of the input array when no id repeats, and otherwise a repeated id
\* stands where its first record stood, with its last record.
C28_GroupsInTableOrder ==
    Built =>
        \A name \in GroupedIndexNames :
            \A g \in 1..Len(GroupedIndex(name)) :
                InOrderOf(GroupedIndex(name)[g].value,
                          MapValues(Table(gameData[1], GroupedFile(name))))

\* item a is given twice, processed first and raw last, around raw item b: the
\* group of raw items has a before b
C28_Witness ==
    /\ Built
    /\ Len(raw.items) = 3
    /\ <<raw.items[1].id, raw.items[2].id, raw.items[3].id>> = <<"a", "b", "a">>
    /\ <<raw.items[1].type, raw.items[2].type, raw.items[3].type>>
           = <<"processed", "raw", "raw">>
    /\ MapValues(gameData[1].items) = <<raw.items[3], raw.items[2]>>
    /\ MapGet(indices[1].itemsByType, "raw") = Some(<<raw.items[3], raw.items[2]>>)

\* the keys of `index` whose group holds `record`
KeysHolding(index, record) ==
    {index[g].key : g \in {h \in 1..Len(index) : Times(index, index[h].key, record) > 0}}

\* `record` is in `index` once, in the group of `key`
OnceUnder(index, key, record) ==
    Times(index, key, record) = 1 /\ KeysHolding(index, record) = {key}

\* every group of `index` has a member and all its members are in `table`
GroupsWithin(index, table) ==
    \A g \in 1..Len(index) :
        /\ Len(index[g].value) > 0
        /\ \A k \in 1..Len(index[g].value) :
              \E i \in 1..Len(table) : table[i].value = index[g].value[k]

\* C29: every recipe of the table is once in recipesByBuilding, under its
\* buildingId, and once in recipesByOutputItem, under its output id; every
\* item once in itemsByType and once in itemsByTier; every building once in
\* buildingsByType, and once in buildingsByCorporation under its corporation if
\* it has an unlock requirement, nowhere in it otherwise; these indices hold
\* no record that is not in the table and no empty group.
C29_GroupedIndicesCoverTables ==
    Built =>
        LET data == gameData[1]
            idx == indices[1]
            recipes == MapValues(data.recipes)
            items == MapValues(data.items)
            buildings == MapValues(data.buildings)
        IN  /\ \A i \in 1..Len(recipes) :
                  /\ OnceUnder(idx.recipesByBuilding, recipes[i].buildingId, recipes[i])
                  /\ OnceUnder(idx.recipesByOutputItem, recipes[i].output.id, recipes[i])
            /\ \A i \in 1..Len(items) :
                  /\ OnceUnder(idx.itemsByType, items[i].type, items[i])
                  /\ OnceUnder(idx.itemsByTier, items[i].tier, items[i])
            /\ \A i \in 1..Len(buildings) :
                  /\ OnceUnder(idx.buildingsByType, buildings[i].type, buildings[i])
                  /\ IF buildings[i].unlockedBy # Undefined
                     THEN OnceUnder(idx.buildingsByCorporation,
                                    buildings[i].unlockedBy[1].corporation, buildings[i])
                     ELSE KeysHolding(idx.buildingsByCorporation, buildings[i]) = {}
            /\ GroupsWithin(idx.recipesByBuilding, data.recipes)
            /\ GroupsWithin(idx.recipesByOutputItem, data.recipes)
            /\ GroupsWithin(idx.itemsByType, data.items)
            /\ GroupsWithin(idx.itemsByTier, data.items)
            /\ GroupsWithin(idx.buildingsByType, data.buildings)
            /\ GroupsWithin(idx.buildingsByCorporation, data.buildings)

\* building a is unlocked by corporation b, building b by nothing
C29_Witness ==
    /\ Built
    /\ Len(raw.buildings) = 2
    /\ raw.buildings[1].id = "a"
    /\ raw.buildings[1].unlockedBy = Some([corporation |-> "b", level |-> 1])
    /\ raw.buildings[2].id = "b"
    /\ raw.buildings[2].unlockedBy = Undefined
    /\ raw.buildings[1].type = raw.buildings[2].type
    /\ indices[1].buildingsByCorporation
           = <<[key |-> "b", value |-> <<raw.buildings[1]>>]>>
    /\ Len(indices[1].buildingsByType) = 1
    /\ indices[1].buildingsByType[1].value = raw.buildings

\* how many entries of the recipe's inputs list name the item
InputEntries(recipe, itemId) ==
    Cardinality({i \in 1..Len(recipe.inputs) : recipe.inputs[i].id = itemId})

\* how many times `record` occurs in a lookup's answer
TimesReturned(call, record) ==
    Cardinality({k \in 1..Len(call.value) : call.value[k] = record})

\* C30: a recipe of the table is in the group of item i of recipesByInputItem
\* once for every entry of its inputs list whose id is i, and
\* getRecipesConsuming(i) returns it that many times.
C30_OncePerInputEntry ==
    Built =>
        LET recipes == MapValues(gameData[1].recipes)
        IN  \A i \in 1..Len(recipes), itemId \in QueryIds :
                /\ Times(indices[1].recipesByInputItem, itemId, recipes[i])
                       = InputEntries(recipes[i], itemId)
                /\ ~getRecipesConsuming(itemId).threw
                /\ TimesReturned(getRecipesConsuming(itemId), recipes[i])
                       = InputEntries(recipes[i], itemId)

\* the only recipe names item a twice
C30_Witness ==
    /\ Built
    /\ Len(raw.recipes) = 1
    /\ raw.recipes[1].inputs = <<[id |-> "a"], [id |-> "a"]>>
    /\ getRecipesConsuming("a") = Return(<<raw.recipes[1], raw.recipes[1]>>)
    /\ getRecipesConsuming("b") = Return(<<>>)

====
